---- MODULE Spec2Model ----
(***************************************************************************)
(* A model of mimesis: the packed binary mask (src/src/binary_image.rs),   *)
(* the mask derivation of the command-line pipeline                        *)
(* (src/bin/src/processing.rs), the contour tracer (src/src/contour.rs),   *)
(* the mesh stages (src/src/mesh.rs) and the batch loop                    *)
(* (src/bin/src/main.rs).                                                  *)
(*                                                                         *)
(* Several specifications share the variables:                             *)
(*   SpecMask    the constructors and the pixel read of BinaryImage and    *)
(*               Processor::generate_binary_mask, each called on inputs    *)
(*               drawn from bounded sets;                                  *)
(*   SpecTrace   BinaryImage::trace_polygons run cell by cell over every   *)
(*               mask of a bounded family;                                 *)
(*   SpecExtrude Mesh2D::extrude called on every mesh of a bounded family; *)
(*   SpecExport  Mesh3D::export_obj run write by write, every file         *)
(*               creation and every write free to fail;                    *)
(*   SpecBatch   the loop of main over the input files, every stage of     *)
(*               process_single_file free to fail;                         *)
(*   SpecTriangulate  PolygonMesh::mesh2d called on every polygon of a     *)
(*               bounded family, the earcut call abstracted;               *)
(*   SpecOutputs find_input_files on a directory and the files every       *)
(*               input writes into the output folder;                      *)
(*   SpecFrom    BinaryImage::from called on decoded images of every       *)
(*               channel depth.                                            *)
(***************************************************************************)
EXTENDS Integers, Sequences, FiniteSets, TLC

VARIABLES
    mask,         \* the BinaryImage: [width, height, buffer]
    call,         \* the operation that produced the current state, with its inputs
    outcome,      \* how that operation ended: a value, a mask, or a panic
    pc,           \* position of the run: "call", "built", "read"; "scan", "assign", "filter", "done"
    cx, cy,       \* the raster cursor of trace_polygons (buffer coordinates)
    ol, hl,       \* the exterior / hole nesting counters of the current row
    contours,     \* the labelling buffer C, (height+2) x (width+2) signed bytes
    polygons,     \* the polygons pushed so far: [exterior, interiors]
    inner_rings,  \* the interior rings traced so far, not yet attached
    next_ring,    \* index of the next interior ring to attach
    dropped,      \* number of interior rings that found no containing polygon
    fault,        \* "none", or the panic the tracer ran into
    min_dim,      \* the minimum-dimension argument of the trace
    result,       \* the polygons returned to the caller
    mesh2d,       \* the Mesh2D handed to extrude: [vertices, indices]
    depth,        \* the depth argument of extrude
    image_w,      \* the image width the pipeline holds when it calls extrude
    image_h,      \* the image height the pipeline holds when it calls extrude
    mesh3d,       \* the Mesh3D that extrude returned: [vertices, uvs, faces]
    export_args,  \* the arguments of export_obj: paths and texture names
    files,        \* the two output files: [obj, mtl], each [exists, lines]
    writer,       \* the lines held in the BufWriter around the OBJ file
    io_failed,    \* whether a File::create or a write of this export returned Err
    ret,          \* what export_obj returned: "none" (still running), "ok", "err"
    continue_on_error, \* config.batch.continue_on_error
    input_count,  \* input_files.len()
    next_input,   \* the input the batch loop takes next, from 1
    stats,        \* ProcessingStats: [total_files, processed, failed, total_polygons]
    invocations,  \* one entry per call of process_single_file: [input, failed_stage, returned]
    run,          \* what main returned: "running", "ok", "err"
    smooth_polygons,     \* the polygons handed to mesh2d
    holes,               \* the hole start indices mesh2d hands to earcut
    entries,             \* the files of the input directory, each with its polygon count
    config,              \* the patterns and the output options of the configuration
    input_files,         \* what find_input_files returned
    written,             \* the files written into the output folder, in order
    dynamic_image        \* the decoded image handed to BinaryImage::from

vars == <<mask, call, outcome, pc, cx, cy, ol, hl, contours, polygons,
          inner_rings, next_ring, dropped, fault, min_dim, result,
          mesh2d, depth, image_w, image_h, mesh3d,
          export_args, files, writer, io_failed, ret,
          continue_on_error, input_count, next_input, stats, invocations, run,
          smooth_polygons, holes, entries, config, input_files, written, dynamic_image>>

\* The variables of the triangulation, which the other stages leave alone.
triangulateVars == <<smooth_polygons, holes>>

\* The variables of the output files, which the other stages leave alone.
outputVars == <<entries, config, input_files, written>>

\* The variables of the batch loop, which the stages leave alone.
batchVars == <<continue_on_error, input_count, next_input, stats, invocations, run>>

\* The variables of the mesh stages, which the mask and the tracer leave alone.
meshVars == <<mesh2d, depth, image_w, image_h, mesh3d,
              export_args, files, writer, io_failed, ret>>

\* The variables of the export, which the extrusion leaves alone.
exportVars == <<export_args, files, writer, io_failed, ret>>

(***************************************************************************)
(* Bounds of the model.                                                    *)
(***************************************************************************)
MaxDim == 2        \* widths and heights handed to the BinaryImage constructors
MaxRawLen == 4     \* longest raw buffer handed to from_raw
MaxImagePixels == 2 \* largest image (in pixels) handed to generate_binary_mask
MaxCore == 3       \* the free core of a traced mask is at most MaxCore x MaxCore
MaxFrames == 2     \* uniform one-pixel frames wrapped around the core
MaxMinDim == 3     \* largest minimum-dimension argument
TraceFuel == 400   \* iterations granted to one trace_polygon loop
MaxCoord == 1      \* vertex coordinates of a Mesh2D lie in 0..MaxCoord
MaxMeshVertices == 4 \* most vertices of a Mesh2D
MaxTriangles == 2  \* most triangles of a Mesh2D
MaxDepth == 1      \* largest extrusion depth
MaxImageSide == 2  \* largest image width and height handed to the extruder
BufCapacity == 3   \* lines the BufWriter holds before it flushes (8 KiB in std)
MaxInputs == 3     \* most input files of a batch
MaxPolygons == 1   \* most polygons of one input

U8Max == 255
I8Min == -128
I8Max == 127

Min(a, b) == IF a < b THEN a ELSE b
Max(a, b) == IF a > b THEN a ELSE b
Abs(a) == IF a < 0 THEN -a ELSE a

(***************************************************************************)
(* BinaryImage                                                             *)
(***************************************************************************)

\* #[derive(Default)]: width 0, height 0, empty bit vector.
DefaultImage == [width |-> 0, height |-> 0, buffer |-> <<>>]

\* BitVec::with_capacity(n) reserves storage and holds no bit: its length is 0.
BitVecWithCapacity(n) == <<>>

\* BinaryImage::new
NewImage(w, h) ==
    [width |-> w, height |-> h, buffer |-> BitVecWithCapacity(w * h)]

\* slice::chunks(step): consecutive pieces of `step` elements, the last one
\* shorter when the length is no multiple of step.
Chunks(buf, step) ==
    LET n == (Len(buf) + step - 1) \div step
    IN  [j \in 1..n |-> SubSeq(buf, (j - 1) * step + 1, Min(j * step, Len(buf)))]

\* A variant of the closure: foreground as soon as one element is non-zero.
ChunkIsForegroundAny(chunk) == \E i \in 1..Len(chunk) : chunk[i] # 0

\* The closure of from_raw: |pixel| !pixel.iter().any(Zero::is_zero)
ChunkIsForeground(chunk) == ~(\E i \in 1..Len(chunk) : chunk[i] = 0)

\* BinaryImage::from_raw, as a record [kind, cause, image].
\* debug_assert! panics in a debug build only; the division panics when
\* width*height is 0; chunks(0) panics when the buffer is shorter than the image.
FromRawOutcome(w, h, buf, debug) ==
    LET image_size == w * h
        compress_step == Len(buf) \div image_size
        chunks == Chunks(buf, compress_step)
    IN  IF debug /\ Len(buf) < image_size
          THEN [kind |-> "panic", cause |-> "debug_assert", image |-> DefaultImage]
        ELSE IF image_size = 0
          THEN [kind |-> "panic", cause |-> "divide_by_zero", image |-> DefaultImage]
        ELSE IF compress_step = 0
          THEN [kind |-> "panic", cause |-> "chunk_size_zero", image |-> DefaultImage]
        ELSE [kind |-> "image", cause |-> "none",
              image |-> [width |-> w, height |-> h,
                         buffer |-> [j \in 1..Len(chunks) |-> ChunkIsForeground(chunks[j])]]]

\* GenericImageView::in_bounds
InBounds(img, x, y) == x < img.width /\ y < img.height

\* unsafe_get_pixel: the index read without a bounds check.
PixelIndex(img, x, y) == y * img.width + x

\* The values BinaryImage::get_pixel may yield. In a debug build the assertion
\* panics out of bounds. The read itself is BitVec::get_unchecked: past the end
\* of the bit vector it is undefined behaviour, any bit or a crash.
GetPixelOutcomes(img, x, y, debug) ==
    IF debug /\ ~InBounds(img, x, y)
      THEN {[kind |-> "panic", value |-> FALSE]}
    ELSE IF PixelIndex(img, x, y) < Len(img.buffer)
      THEN {[kind |-> "value", value |-> img.buffer[PixelIndex(img, x, y) + 1]]}
    ELSE {[kind |-> "value", value |-> TRUE], [kind |-> "value", value |-> FALSE],
          [kind |-> "crash", value |-> FALSE]}

(***************************************************************************)
(* Processor::generate_binary_mask                                         *)
(***************************************************************************)
MaskMethod == {"Luminance", "Alpha", "Red", "Green", "Blue"}

\* The decoded pixels the model feeds in: 8-bit RGBA.
Palette ==
    { [r |-> 0,   g |-> 0,   b |-> 0,   a |-> 0],
      [r |-> 255, g |-> 255, b |-> 255, a |-> 255],
      [r |-> 200, g |-> 100, b |-> 50,  a |-> 128] }

\* DynamicImage::to_luma8 on an RGBA8 image (the image crate's integer
\* Rec. 709 weights); to_rgba8 and to_rgb8 keep the stored bytes.
ToLuma8(p) == (2126 * p.r + 7152 * p.g + 722 * p.b) \div 10000

\* The byte each arm of generate_binary_mask compares with the threshold.
SelectedChannel(method, p) ==
    CASE method = "Luminance" -> ToLuma8(p)
      [] method = "Alpha"     -> p.a
      [] method = "Red"       -> p.r
      [] method = "Green"     -> p.g
      [] method = "Blue"      -> p.b

\* A variant of the comparison: greater or equal.
ThresholdByteInclusive(channel, threshold) == IF channel >= threshold THEN 255 ELSE 0

\* |pixel| if pixel.0[c] > threshold { 255 } else { 0 }
ThresholdByte(channel, threshold) == IF channel > threshold THEN 255 ELSE 0

\* generate_binary_mask: threshold every pixel, then BinaryImage::from_raw.
GenerateBinaryMask(image, method, threshold, debug) ==
    LET binary_data ==
            [i \in 1..Len(image.pixels) |->
                ThresholdByte(SelectedChannel(method, image.pixels[i]), threshold)]
    IN  FromRawOutcome(image.width, image.height, binary_data, debug)

(***************************************************************************)
(* Inputs of the BinaryImage operations.                                   *)
(***************************************************************************)
RawBytes == {0, 1, 255}

RECURSIVE SeqsOfLen(_, _)
SeqsOfLen(S, n) ==
    IF n = 0 THEN {<<>>}
    ELSE {Append(s, e) : s \in SeqsOfLen(S, n - 1), e \in S}

SeqsUpTo(S, n) == UNION {SeqsOfLen(S, k) : k \in 0..n}

Dims == 0..MaxDim

\* Decoded images have at least one pixel.
Images ==
    UNION { { [width |-> w, height |-> h, pixels |-> px] : px \in SeqsOfLen(Palette, w * h) }
            : w \in 1..MaxImagePixels, h \in 1..MaxImagePixels }

SmallImages == {im \in Images : im.width * im.height <= MaxImagePixels}

NoCall ==
    [op |-> "none", ctor |-> "default", buf |-> <<>>, debug |-> FALSE,
     x |-> 0, y |-> 0, method |-> "none", threshold |-> 0, pixels |-> <<>>,
     w |-> 0, h |-> 0]

NoOutcome == [kind |-> "none", cause |-> "none", value |-> FALSE]

(***************************************************************************)
(* No mesh exists while the mask and the tracer are exercised.             *)
(***************************************************************************)
NoMesh2D == [vertices |-> <<>>, indices |-> <<>>]

\* Mesh3D::new()
NewMesh3D == [vertices |-> <<>>, uvs |-> <<>>, faces |-> <<>>]

\* A path that File::create has not been called on and that does not exist.
NoFile == [exists |-> FALSE, lines |-> <<>>]

NoExportArgs ==
    [obj_path |-> <<>>, mtl_path |-> <<>>,
     front_texture |-> "", back_texture |-> "", side_texture |-> ""]

ExportIdle ==
    /\ export_args = NoExportArgs
    /\ files = [obj |-> NoFile, mtl |-> NoFile]
    /\ writer = <<>> /\ io_failed = FALSE /\ ret = "none"

\* ProcessingStats::new(total_files)
NewStats(total_files) ==
    [total_files |-> total_files, processed |-> 0, failed |-> 0, total_polygons |-> 0]

\* No batch runs while a single stage is exercised.
BatchIdle ==
    /\ continue_on_error = FALSE /\ input_count = 0 /\ next_input = 1
    /\ stats = NewStats(0) /\ invocations = <<>> /\ run = "running"

\* No polygon is triangulated while another stage is exercised.
TriangulateIdle ==
    /\ smooth_polygons = <<>> /\ holes = <<>>

\* No decoded image is converted while another operation is exercised.
NoImage == [format |-> "none", width |-> 0, height |-> 0, alpha |-> <<>>]

\* No directory is read and no output is written while a stage is exercised.
OutputsIdle ==
    /\ entries = <<>> /\ input_files = <<>> /\ written = <<>>
    /\ config = [include_patterns |-> {}, exclude_patterns |-> {},
                 side_texture |-> FALSE, back_texture |-> FALSE,
                 skip_intermediates |-> FALSE]

MeshIdle ==
    /\ mesh2d = NoMesh2D /\ depth = 0 /\ image_w = 0 /\ image_h = 0
    /\ mesh3d = NewMesh3D
    /\ ExportIdle

(***************************************************************************)
(* The tracer is idle while the BinaryImage operations are exercised.      *)
(***************************************************************************)
TraceIdle ==
    /\ cx = 0 /\ cy = 0 /\ ol = 0 /\ hl = 0
    /\ contours = <<>> /\ polygons = <<>> /\ inner_rings = <<>>
    /\ next_ring = 1 /\ dropped = 0 /\ fault = "none" /\ min_dim = 0
    /\ result = <<>>

maskIdleVars == <<cx, cy, ol, hl, contours, polygons, inner_rings,
                  next_ring, dropped, fault, min_dim, result, meshVars, batchVars, triangulateVars, outputVars, dynamic_image>>

\* The calls the model makes, each with its inputs and the build profile.
Calls ==
    { [NoCall EXCEPT !.op = "new", !.ctor = "new", !.w = w, !.h = h, !.debug = d]
        : w \in Dims, h \in Dims, d \in BOOLEAN }
    \cup
    { [NoCall EXCEPT !.op = "from_raw", !.ctor = "from_raw", !.w = w, !.h = h,
                     !.buf = buf, !.debug = d]
        : w \in Dims, h \in Dims, buf \in SeqsUpTo(RawBytes, MaxRawLen), d \in BOOLEAN }
    \cup
    { [NoCall EXCEPT !.op = "generate_binary_mask", !.ctor = "generate_binary_mask",
                     !.w = im.width, !.h = im.height, !.pixels = im.pixels,
                     !.method = m, !.threshold = t, !.debug = d]
        : im \in SmallImages, m \in MaskMethod, t \in 0..U8Max, d \in BOOLEAN }

InitMask ==
    /\ mask = DefaultImage
    /\ call \in Calls
    /\ outcome = NoOutcome
    /\ pc = "call"
    /\ TraceIdle
    /\ MeshIdle
    /\ BatchIdle
    /\ TriangulateIdle
    /\ OutputsIdle
    /\ dynamic_image = NoImage

\* let m = BinaryImage::new(w, h);
New ==
    /\ pc = "call" /\ call.op = "new"
    /\ mask' = NewImage(call.w, call.h)
    /\ outcome' = [NoOutcome EXCEPT !.kind = "image"]
    /\ pc' = "built"
    /\ UNCHANGED <<call, maskIdleVars>>

\* let m = BinaryImage::from_raw(w, h, &buf);  a panic returns no mask.
FromRaw ==
    LET r == FromRawOutcome(call.w, call.h, call.buf, call.debug)
    IN  /\ pc = "call" /\ call.op = "from_raw"
        /\ mask' = IF r.kind = "image" THEN r.image ELSE DefaultImage
        /\ outcome' = [NoOutcome EXCEPT !.kind = r.kind, !.cause = r.cause]
        /\ pc' = "built"
        /\ UNCHANGED <<call, maskIdleVars>>

\* let binary = Self::generate_binary_mask(&image, &method, threshold);
DeriveMask ==
    LET image == [width |-> call.w, height |-> call.h, pixels |-> call.pixels]
        r == GenerateBinaryMask(image, call.method, call.threshold, call.debug)
    IN  /\ pc = "call" /\ call.op = "generate_binary_mask"
        /\ mask' = IF r.kind = "image" THEN r.image ELSE DefaultImage
        /\ outcome' = [NoOutcome EXCEPT !.kind = r.kind, !.cause = r.cause]
        /\ pc' = "built"
        /\ UNCHANGED <<call, maskIdleVars>>

\* let bit = m.get_pixel(x, y);  on the mask the constructor returned.
GetPixel(x, y) ==
    /\ pc = "built"
    /\ outcome.kind = "image"
    /\ \E r \in GetPixelOutcomes(mask, x, y, call.debug) :
          outcome' = [NoOutcome EXCEPT !.kind = r.kind, !.value = r.value]
    /\ call' = [NoCall EXCEPT !.op = "get_pixel", !.ctor = call.ctor,
                              !.x = x, !.y = y, !.debug = call.debug]
    /\ pc' = "read"
    /\ UNCHANGED <<mask, maskIdleVars>>

NextMask ==
    \/ New
    \/ FromRaw
    \/ DeriveMask
    \/ \E x \in Dims, y \in Dims : GetPixel(x, y)

SpecMask == InitMask /\ [][NextMask]_vars

(***************************************************************************)
(* Claims about the mask (checked under SpecMask).                         *)
(***************************************************************************)
Built(op) == pc = "built" /\ call.op = op

\* Bit i (row-major, 0-based) of the mask that was built.
BitAt(i) == mask.buffer[i + 1]

\* C1: generate_binary_mask returns a mask of the input's width and height whose
\* bit at (x, y) is foreground exactly when the selected channel byte of that
\* pixel is strictly greater than the threshold, for every method and threshold.
C1_MaskDerivation ==
    Built("generate_binary_mask") =>
        /\ outcome.kind = "image"
        /\ mask.width = call.w /\ mask.height = call.h
        /\ Len(mask.buffer) = call.w * call.h
        /\ \A x \in 0..(call.w - 1), y \in 0..(call.h - 1) :
              BitAt(y * call.w + x) =
                (SelectedChannel(call.method, call.pixels[y * call.w + x + 1]) > call.threshold)

\* A two-pixel image one of whose pixels passes the threshold while the other
\* does not, the threshold being the very byte of the pixel that fails.
C1_Witness ==
    /\ Built("generate_binary_mask")
    /\ call.method = "Red" /\ call.threshold = 200
    /\ Len(mask.buffer) = 2
    /\ \E i, j \in 0..1 :
          /\ call.pixels[i + 1].r = 200 /\ ~BitAt(i)
          /\ call.pixels[j + 1].r = 255 /\ BitAt(j)

\* Bytes [i*k, (i+1)*k) of the raw buffer of the call.
ChunkOf(i, k) == SubSeq(call.buf, i * k + 1, (i + 1) * k)

\* from_raw was handed a buffer of exactly k * w * h elements, k >= 1.
ExactMultiple(k) ==
    /\ Built("from_raw")
    /\ call.w * call.h > 0
    /\ Len(call.buf) = k * call.w * call.h

\* C2 as stated: with a buffer of k*w*h bytes, pixel i is foreground exactly
\* when at least one byte of its chunk [i*k, (i+1)*k) is non-zero.
C2_AnyByteNonZero ==
    \A k \in 1..MaxRawLen :
        ExactMultiple(k) =>
            /\ outcome.kind = "image"
            /\ Len(mask.buffer) = call.w * call.h
            /\ \A i \in 0..(call.w * call.h - 1) :
                  BitAt(i) = (\E b \in 1..k : ChunkOf(i, k)[b] # 0)

\* C2 amended: with a buffer of k*w*h bytes, pixel i is built from bytes
\* [i*k, (i+1)*k) and is foreground exactly when every byte of that chunk is
\* non-zero; with k = 1 it is foreground exactly when its byte is non-zero.
C2_EveryByteNonZero ==
    \A k \in 1..MaxRawLen :
        ExactMultiple(k) =>
            /\ outcome.kind = "image"
            /\ mask.width = call.w /\ mask.height = call.h
            /\ Len(mask.buffer) = call.w * call.h
            /\ \A i \in 0..(call.w * call.h - 1) :
                  BitAt(i) = (\A b \in 1..k : ChunkOf(i, k)[b] # 0)

\* Two pixels of two bytes each: the first chunk mixes a zero and a non-zero
\* byte and is background, the second has no zero byte and is foreground.
C2_Witness ==
    /\ ExactMultiple(2)
    /\ call.w * call.h = 2
    /\ ChunkOf(0, 2) = <<0, 255>> /\ ~BitAt(0)
    /\ ChunkOf(1, 2) = <<1, 255>> /\ BitAt(1)

\* C3 as stated: from_raw with a buffer shorter than w*h ends with an
\* InvalidDimensions error value; it neither panics nor returns a mask.
C3_ShortBufferIsError ==
    (Built("from_raw") /\ Len(call.buf) < call.w * call.h) =>
        /\ outcome.kind = "error"
        /\ outcome.cause = "InvalidDimensions"

\* C4 as stated: after new(w, h) the bit buffer holds at least w*h bits and
\* get_pixel returns background for every in-bounds (x, y).
C4_NewIsZeroInitialised ==
    /\ Built("new") => Len(mask.buffer) >= call.w * call.h
    /\ (pc = "read" /\ call.ctor = "new" /\ InBounds(mask, call.x, call.y)) =>
          (outcome.kind = "value" /\ outcome.value = FALSE)

(***************************************************************************)
(* Contour tracing: the tables of src/src/contour.rs.  Rust indexes from   *)
(* 0; At(t, i) reads element i of a table written as a tuple.              *)
(***************************************************************************)
At(t, i) == t[i + 1]

O_VERTEX_WITH_BORDER ==
    << <<-1, 0>>, <<0, 0>>, <<-1, -1>>, <<0, 0>>, <<0, -1>>, <<0, 0>>, <<0, 0>> >>
H_VERTEX_WITH_BORDER ==
    << <<0, 0>>, <<0, 0>>, <<-1, 0>>, <<0, 0>>, <<-1, -1>>, <<0, 0>>, <<0, -1>> >>
O_VALUE_FOR_SIGNED == <<1, 0, 2, 0, 4, 0, 8>>
H_VALUE_FOR_SIGNED == <<-4, 0, -8, 0, -1, 0, -2>>
MN ==
    << <<0, -1>>, <<1, -1>>, <<1, 0>>, <<1, 1>>, <<0, 1>>, <<-1, 1>>, <<-1, 0>>, <<-1, -1>> >>

\* slice::rotate_right(k) and slice::rotate_left(k) on the 8 orientations.
RotateRight(o, k) == [i \in 1..8 |-> o[((i - 1 - k) % 8) + 1]]
RotateLeft(o, k) == [i \in 1..8 |-> o[((i - 1 + k) % 8) + 1]]

\* i8::rem_euclid(8) as usize
RemEuclid8(rot) == rot % 8

\* contours[y][x]
Cell(C, x, y) == C[y + 1][x + 1]

\* The dimensions of the labelling buffer: contours.len(), contours[0].len().
BufRows(C) == Len(C)
BufCols(C) == Len(C[1])

InBuffer(C, x, y) == x \in 0..(BufCols(C) - 1) /\ y \in 0..(BufRows(C) - 1)

\* The arguments of the two calls of trace_polygon.
ExteriorParams(x, y) ==
    [outline |-> TRUE, cursor_x |-> x, cursor_y |-> y,
     o |-> <<2, 3, 4, 5, 6, 7, 0, 1>>, rot |-> 2, viv |-> <<7, 1, 0>>,
     vertex |-> O_VERTEX_WITH_BORDER, value |-> O_VALUE_FOR_SIGNED]

InteriorParams(x, y) ==
    [outline |-> FALSE, cursor_x |-> x, cursor_y |-> y,
     o |-> <<4, 5, 6, 7, 0, 1, 2, 3>>, rot |-> -2, viv |-> <<1, 7, 6>>,
     vertex |-> H_VERTEX_WITH_BORDER, value |-> H_VALUE_FOR_SIGNED]

\* The eight guarded reads at the top of the tracing loop.
Neighbors(C, tx, ty) ==
    LET rows == BufRows(C)
        cols == BufCols(C)
    IN  << IF ty > 0 THEN Cell(C, tx, ty - 1) ELSE 0,
           IF ty > 0 /\ tx < cols - 1 THEN Cell(C, tx + 1, ty - 1) ELSE 0,
           IF tx < cols - 1 THEN Cell(C, tx + 1, ty) ELSE 0,
           IF ty < rows - 1 /\ tx < cols - 1 THEN Cell(C, tx + 1, ty + 1) ELSE 0,
           IF ty < rows - 1 THEN Cell(C, tx, ty + 1) ELSE 0,
           IF ty < rows - 1 /\ tx > 0 THEN Cell(C, tx - 1, ty + 1) ELSE 0,
           IF tx > 0 THEN Cell(C, tx - 1, ty) ELSE 0,
           IF ty > 0 /\ tx > 0 THEN Cell(C, tx - 1, ty - 1) ELSE 0 >>

\* rn for an outline.
RnOutline(n, o) ==
    IF At(n, At(o, 7)) > 0 /\ At(n, At(o, 0)) > 0 THEN 1
    ELSE IF At(n, At(o, 0)) > 0 THEN 2
    ELSE IF At(n, At(o, 1)) > 0 /\ At(n, At(o, 2)) > 0 THEN 3
    ELSE 0

\* rn for a hole.
RnHole(n, o) ==
    IF At(n, At(o, 1)) < 0 /\ At(n, At(o, 0)) < 0 THEN 1
    ELSE IF At(n, At(o, 0)) < 0 THEN 2
    ELSE IF At(n, At(o, 7)) < 0 /\ At(n, At(o, 6)) < 0 THEN 3
    ELSE 0

\* contours[tracer_y][tracer_x] += value[o[0]]; an i8 that leaves its range
\* panics in a debug build, and the model stops the trace there.
AddValue(t, p) ==
    LET v == Cell(t.C, t.tx, t.ty) + At(p.value, At(t.o, 0))
    IN  IF v < I8Min \/ v > I8Max
          THEN [t EXCEPT !.fault = "i8_overflow"]
          ELSE [t EXCEPT !.C[t.ty + 1][t.tx + 1] = v]

\* tracer = tracer.wrapping_add(MN[d] as usize): a step below 0 wraps to the top
\* of usize; the model keeps the negative number, which is outside the buffer
\* just as the wrapped one is.
Move(t, d) == [t EXCEPT !.tx = t.tx + At(MN, d)[1], !.ty = t.ty + At(MN, d)[2]]

\* ring.push(Coord { x: tracer_x + vertex[o[0]].0, y: tracer_y + vertex[o[0]].1 })
PushVertex(t, p) ==
    [t EXCEPT !.ring = Append(t.ring, <<t.tx + At(p.vertex, At(t.o, 0))[1],
                                        t.ty + At(p.vertex, At(t.o, 0))[2]>>)]

\* The four arms of `match rn`.
Arm(t, p, rn) ==
    LET r == RemEuclid8(p.rot)
    IN  CASE rn = 1 ->
               LET a == AddValue(t, p)
                   m == Move(a, At(a.o, p.viv[1]))
               IN  [m EXCEPT !.o = RotateRight(m.o, r), !.vn = m.vn + 1]
          [] rn = 2 ->
               LET a == AddValue(t, p)
               IN  Move(a, At(a.o, 0))
          [] rn = 3 ->
               LET a == AddValue(t, p)
                   b == [a EXCEPT !.o = RotateLeft(a.o, r)]
                   c == AddValue(b, p)
                   d == PushVertex([c EXCEPT !.vn = c.vn + 1], p)
                   e == [d EXCEPT !.o = RotateRight(d.o, r)]
                   m == Move(e, At(e.o, p.viv[2]))
               IN  [m EXCEPT !.vn = m.vn + 1]
          [] OTHER ->
               LET a == AddValue(t, p)
               IN  [a EXCEPT !.o = RotateLeft(a.o, r), !.vn = a.vn + 1]

\* A variant of the exit test that already leaves after the second vertex.
BackAtStartEarly(t, p) == t.tx = p.cursor_x /\ t.ty = p.cursor_y /\ t.vn > 1

\* A variant of the exit test that never leaves the loop.
BackAtStartNever(t, p) == t.vn < 0

\* if tracer_x == cursor_x && tracer_y == cursor_y && vertices_nbr > 2 { break; }
BackAtStart(t, p) == t.tx = p.cursor_x /\ t.ty = p.cursor_y /\ t.vn > 2

\* The main loop of trace_polygon.  A cursor outside the buffer makes the
\* unguarded row read of the next iteration panic.
RECURSIVE TraceLoop(_, _)
TraceLoop(t, p) ==
    IF t.fault # "none" THEN t
    ELSE IF t.fuel = 0 THEN [t EXCEPT !.fault = "no_termination"]
    ELSE IF ~InBuffer(t.C, t.tx, t.ty) THEN [t EXCEPT !.fault = "index_out_of_bounds"]
    ELSE LET n == Neighbors(t.C, t.tx, t.ty)
             rn == IF p.outline THEN RnOutline(n, t.o) ELSE RnHole(n, t.o)
             u == Arm(t, p, rn)
         IN  IF u.fault # "none" THEN u
             ELSE IF BackAtStart(u, p) THEN u
             ELSE TraceLoop([(IF rn # 2 THEN PushVertex(u, p) ELSE u)
                                EXCEPT !.fuel = t.fuel - 1], p)

RECURSIVE FinalLoopOneMore(_, _)
RECURSIVE FinalLoop(_, _)

\* A variant of the cleanup loop that turns and pushes once more after the
\* terminal orientation.
FinalLoopOneMore(t, p) ==
    IF t.fault # "none" THEN t
    ELSE LET a == AddValue(t, p)
             b == PushVertex([a EXCEPT !.o = RotateLeft(a.o, RemEuclid8(p.rot)),
                                       !.vn = a.vn + 1], p)
         IN  IF a.fault # "none" THEN a
             ELSE IF At(a.o, 0) = p.viv[3] THEN b
             ELSE FinalLoopOneMore(b, p)

\* The final cleanup loop of trace_polygon.
FinalLoop(t, p) ==
    IF t.fault # "none" THEN t
    ELSE LET a == AddValue(t, p)
         IN  IF a.fault # "none" \/ At(a.o, 0) = p.viv[3] THEN a
             ELSE FinalLoop(
                    PushVertex([a EXCEPT !.o = RotateLeft(a.o, RemEuclid8(p.rot)),
                                         !.vn = a.vn + 1], p), p)

\* trace_polygon: the ring (not yet closed), the buffer it marked, the fault.
TracePolygon(C, p) ==
    LET t0 == [C |-> C, tx |-> p.cursor_x, ty |-> p.cursor_y, o |-> p.o, vn |-> 1,
               ring |-> <<>>, fault |-> "none", fuel |-> TraceFuel]
    IN  FinalLoop(TraceLoop(PushVertex(t0, p), p), p)

(***************************************************************************)
(* geo: LineString::close, used by Polygon::new and Polygon::interiors_push *)
(***************************************************************************)
\* A variant that leaves the ring as traced.
LeaveOpen(ring) == ring

\* LineString::close: append the first coordinate unless the ring is closed.
Close(ring) ==
    IF Len(ring) = 0 \/ ring[1] = ring[Len(ring)] THEN ring ELSE Append(ring, ring[1])

\* A variant that stores the ring as traced, without closing it.
NewPolygonOpen(ring) == [exterior |-> ring, interiors |-> <<>>]

\* Polygon::new(ring, vec![])
NewPolygon(ring) == [exterior |-> Close(ring), interiors |-> <<>>]

\* Polygon::interiors_push(ring)
InteriorsPush(polygon, ring) ==
    [polygon EXCEPT !.interiors = Append(polygon.interiors, Close(ring))]

(***************************************************************************)
(* The helpers of the hole assignment.                                     *)
(***************************************************************************)
\* The test of one edge (i, j) in point_in_polygon:
\*   ((yi > py) != (yj > py)) && (px < (xj - xi) * (py - yi) / (yj - yi) + xi)
\* The coordinates are whole numbers held in f64.  When the first conjunct
\* holds yj # yi, and px - xi < (xj - xi)(py - yi)/(yj - yi) is decided by
\* cross-multiplying with the sign of yj - yi; the f64 quotient is rounded
\* only when it is no whole number, which cannot change a comparison with a
\* whole number.
EdgeCrosses(pt, ci, cj) ==
    /\ (ci[2] > pt[2]) # (cj[2] > pt[2])
    /\ IF cj[2] - ci[2] > 0
         THEN (pt[1] - ci[1]) * (cj[2] - ci[2]) < (cj[1] - ci[1]) * (pt[2] - ci[2])
         ELSE (pt[1] - ci[1]) * (cj[2] - ci[2]) > (cj[1] - ci[1]) * (pt[2] - ci[2])

\* point_in_polygon: `inside` is toggled once per crossing edge.
PointInPolygon(pt, ring) ==
    LET n == Len(ring)
        prev(i) == IF i = 1 THEN n ELSE i - 1
    IN  IF n < 3 THEN FALSE
        ELSE Cardinality({i \in 1..n : EdgeCrosses(pt, ring[i], ring[prev(i)])}) % 2 = 1

\* A variant that accepts every polygon for every ring, without the test.
AnyPolygonContainsRing(exterior, inner_ring) == Len(inner_ring) > 0

\* polygon_contains_ring: the first point of the inner ring is tested.
PolygonContainsRing(exterior, inner_ring) ==
    IF Len(inner_ring) > 0 THEN PointInPolygon(inner_ring[1], exterior) ELSE FALSE

RECURSIVE SumUpTo(_, _)
SumUpTo(f, n) == IF n = 0 THEN 0 ELSE f[n] + SumUpTo(f, n - 1)

\* calculate_polygon_area, doubled: the code returns |sum| / 2.0 and only
\* compares the results, so the model keeps the whole number |sum|.
CalculatePolygonArea2(ring) ==
    LET n == Len(ring)
        prev(i) == IF i = 1 THEN n ELSE i - 1
        term == [i \in 1..n |->
                    (ring[prev(i)][1] + ring[i][1]) * (ring[prev(i)][2] - ring[i][2])]
    IN  IF n < 3 THEN 0 ELSE Abs(SumUpTo(term, n))

\* The polygons whose exterior contains the ring.
Containing(polys, inner_ring) ==
    {i \in 1..Len(polys) : PolygonContainsRing(polys[i].exterior, inner_ring)}

\* A variant of the choice: the first containing polygon, whatever its area.
FirstPolygonIdx(polys, inner_ring) ==
    LET cand == Containing(polys, inner_ring)
    IN  IF cand = {} THEN 0 ELSE CHOOSE i \in cand : \A j \in cand : i <= j

\* The loop over the polygons: the first containing polygon of strictly
\* smallest area so far wins (0 stands for None).
BestPolygonIdx(polys, inner_ring) ==
    LET cand == Containing(polys, inner_ring)
        area(i) == CalculatePolygonArea2(polys[i].exterior)
    IN  IF cand = {} THEN 0
        ELSE CHOOSE i \in cand :
                \A j \in cand : area(i) < area(j) \/ (area(i) = area(j) /\ i <= j)

(***************************************************************************)
(* The minimum-dimension filter of trace(mask, min_dim).  The tracer of    *)
(* src/src/contour.rs takes no min_dim; the filter is modelled from the    *)
(* specification: a polygon or an interior ring is kept when the bounding  *)
(* box of its ring is at least min_dim wide and at least min_dim high.     *)
(***************************************************************************)
BBoxWidth(ring) ==
    LET xs == {ring[i][1] : i \in 1..Len(ring)}
    IN  (CHOOSE a \in xs : \A b \in xs : a >= b) - (CHOOSE a \in xs : \A b \in xs : a <= b)

BBoxHeight(ring) ==
    LET ys == {ring[i][2] : i \in 1..Len(ring)}
    IN  (CHOOSE a \in ys : \A b \in ys : a >= b) - (CHOOSE a \in ys : \A b \in ys : a <= b)

\* A variant of the criterion that looks at the width only.
MeetsMinWidth(ring, m) == BBoxWidth(ring) >= m

MeetsMinDim(ring, m) == BBoxWidth(ring) >= m /\ BBoxHeight(ring) >= m

RECURSIVE SelectSeq2(_, _, _)
SelectSeq2(seq, m, i) ==
    IF i > Len(seq) THEN <<>>
    ELSE IF MeetsMinDim(seq[i], m) THEN <<seq[i]>> \o SelectSeq2(seq, m, i + 1)
    ELSE SelectSeq2(seq, m, i + 1)

RECURSIVE FilterPolygons(_, _, _)
FilterPolygons(polys, m, i) ==
    IF i > Len(polys) THEN <<>>
    ELSE IF MeetsMinDim(polys[i].exterior, m)
      THEN <<[exterior |-> polys[i].exterior,
              interiors |-> SelectSeq2(polys[i].interiors, m, 1)]>>
           \o FilterPolygons(polys, m, i + 1)
    ELSE FilterPolygons(polys, m, i + 1)

FilterMinDim(polys, m) == FilterPolygons(polys, m, 1)

(***************************************************************************)
(* The masks that are traced: a free core of at most MaxCore x MaxCore     *)
(* pixels inside at most MaxFrames uniform one-pixel frames.               *)
(***************************************************************************)
FramedMask(w, h, core, frames) ==
    LET f == Len(frames)
        W == w + 2 * f
        H == h + 2 * f
        bit(x, y) ==
            LET d == Min(Min(x, y), Min(W - 1 - x, H - 1 - y))
            IN  IF d < f THEN frames[d + 1] ELSE core[(y - f) * w + (x - f) + 1]
    IN  [width |-> W, height |-> H,
         buffer |-> [i \in 1..(W * H) |-> bit((i - 1) % W, (i - 1) \div W)]]

TraceMasks ==
    { FramedMask(c[1], c[2], c[3], fr) :
        c \in UNION { {<<w, h, core>> : core \in SeqsOfLen(BOOLEAN, w * h)}
                       : w \in 0..MaxCore, h \in 0..MaxCore },
        fr \in SeqsUpTo(BOOLEAN, MaxFrames) }

(***************************************************************************)
(* BinaryImage::trace_polygons, one action per cell of the raster scan and *)
(* per interior ring of the assignment loop.                               *)
(***************************************************************************)
\* A variant of the initialisation with the two labels exchanged.
InitialContoursInverted(img) ==
    [r \in 1..(img.height + 2) |->
        [c \in 1..(img.width + 2) |->
            IF r = 1 \/ r = img.height + 2 \/ c = 1 \/ c = img.width + 2 THEN 0
            ELSE IF img.buffer[PixelIndex(img, c - 2, r - 2) + 1] THEN -1 ELSE 1]]

\* vec![vec![0i8; width + 2]; height + 2], then +1 / -1 for every pixel.
InitialContours(img) ==
    [r \in 1..(img.height + 2) |->
        [c \in 1..(img.width + 2) |->
            IF r = 1 \/ r = img.height + 2 \/ c = 1 \/ c = img.width + 2 THEN 0
            ELSE IF img.buffer[PixelIndex(img, c - 2, r - 2) + 1] THEN 1 ELSE -1]]

InitTrace ==
    /\ mask \in TraceMasks
    /\ call = [NoCall EXCEPT !.op = "trace_polygons", !.ctor = "from_bitvec"]
    /\ outcome = NoOutcome
    /\ pc = "start"
    /\ TraceIdle
    /\ MeshIdle
    /\ BatchIdle
    /\ TriangulateIdle
    /\ OutputsIdle
    /\ dynamic_image = NoImage

\* The allocation and the initialisation loop.
BeginTrace ==
    /\ pc = "start"
    /\ contours' = InitialContours(mask)
    /\ cx' = 1 /\ cy' = 1
    /\ pc' = IF mask.width = 0 \/ mask.height = 0 THEN "assign" ELSE "scan"
    /\ UNCHANGED <<meshVars, batchVars, triangulateVars, outputVars, dynamic_image, mask, call, outcome, ol, hl, polygons, inner_rings, next_ring,
                   dropped, fault, min_dim, result>>

\* The counters as the cell finds them: both are reset at the start of a row.
OlIn == IF cx = 1 THEN 0 ELSE ol
HlIn == IF cx = 1 THEN 0 ELSE hl

\* A variant of the exterior trigger that ignores the nesting counters.
ExteriorStartAnyDepth(C, x, y, o, h) ==
    /\ Cell(C, x, y) = 1
    /\ (Cell(C, x - 1, y) <= 0 \/ Cell(C, x, y - 1) <= 0 \/
        Cell(C, x, y + 1) <= 0 \/ Cell(C, x + 1, y) <= 0)

\* ol == hl && contours[y][x] == 1, and is_boundary.
ExteriorStart(C, x, y, o, h) ==
    /\ o = h /\ Cell(C, x, y) = 1
    /\ (Cell(C, x - 1, y) <= 0 \/ Cell(C, x, y - 1) <= 0 \/
        Cell(C, x, y + 1) <= 0 \/ Cell(C, x + 1, y) <= 0)

\* A variant of the interior trigger that ignores the nesting counters.
InteriorStartAnyDepth(C, x, y, o, h) ==
    /\ ~(o = h /\ Cell(C, x, y) = 1)
    /\ Cell(C, x, y) = -1
    /\ (Cell(C, x - 1, y) > 0 \/ Cell(C, x, y - 1) > 0 \/
        Cell(C, x, y + 1) > 0 \/ Cell(C, x + 1, y) > 0)

\* the else-if arm: ol > hl && contours[y][x] == -1, and is_interior_boundary.
\* It is not tried when ol == hl && contours[y][x] == 1.
InteriorStart(C, x, y, o, h) ==
    /\ ~(o = h /\ Cell(C, x, y) = 1)
    /\ o > h /\ Cell(C, x, y) = -1
    /\ (Cell(C, x - 1, y) > 0 \/ Cell(C, x, y - 1) > 0 \/
        Cell(C, x, y + 1) > 0 \/ Cell(C, x + 1, y) > 0)

\* A variant of the counter update that also counts the mark 1 | 8.
UpdateCountersNine(v, o, h) ==
    IF Abs(v) \in {2, 4, 9, 10, 12}
      THEN IF v > 0 THEN <<o + 1, h>> ELSE <<o, h + 1>>
    ELSE IF Abs(v) \in {5, 7, 13, 15}
      THEN IF v > 0 THEN <<o - 1, h>> ELSE <<o, h - 1>>
    ELSE <<o, h>>

\* The match on contours[y][x].abs() that updates ol and hl: <<ol, hl>> after.
UpdateCounters(v, o, h) ==
    IF Abs(v) \in {2, 4, 10, 12}
      THEN IF v > 0 THEN <<o + 1, h>> ELSE <<o, h + 1>>
    ELSE IF Abs(v) \in {5, 7, 13, 15}
      THEN IF v > 0 THEN <<o - 1, h>> ELSE <<o, h - 1>>
    ELSE <<o, h>>

\* The end of the loop body: the counter update and the step to the next cell.
FinishCell(C) ==
    LET cnt == UpdateCounters(Cell(C, cx, cy), OlIn, HlIn)
    IN  /\ ol' = cnt[1] /\ hl' = cnt[2]
        /\ IF cx < mask.width THEN cx' = cx + 1 /\ cy' = cy /\ pc' = "scan"
           ELSE IF cy < mask.height THEN cx' = 1 /\ cy' = cy + 1 /\ pc' = "scan"
           ELSE cx' = cx /\ cy' = cy /\ pc' = "assign"

\* A trace that panicked ends the call.
Panic(t) ==
    /\ fault' = t.fault
    /\ pc' = "panicked"
    /\ UNCHANGED <<cx, cy, ol, hl, contours, polygons, inner_rings>>

\* A cell that starts an exterior trace.
TraceExterior ==
    /\ pc = "scan"
    /\ ExteriorStart(contours, cx, cy, OlIn, HlIn)
    /\ LET t == TracePolygon(contours, ExteriorParams(cx, cy))
       IN  IF t.fault # "none" THEN Panic(t)
           ELSE /\ contours' = t.C
                /\ polygons' = Append(polygons, NewPolygon(t.ring))
                /\ FinishCell(t.C)
                /\ UNCHANGED <<inner_rings, fault>>
    /\ UNCHANGED <<meshVars, batchVars, triangulateVars, outputVars, dynamic_image, mask, call, outcome, next_ring, dropped, min_dim, result>>

\* A cell that starts an interior trace.
TraceInterior ==
    /\ pc = "scan"
    /\ InteriorStart(contours, cx, cy, OlIn, HlIn)
    /\ LET t == TracePolygon(contours, InteriorParams(cx, cy))
       IN  IF t.fault # "none" THEN Panic(t)
           ELSE /\ contours' = t.C
                /\ inner_rings' = Append(inner_rings, t.ring)
                /\ FinishCell(t.C)
                /\ UNCHANGED <<polygons, fault>>
    /\ UNCHANGED <<meshVars, batchVars, triangulateVars, outputVars, dynamic_image, mask, call, outcome, next_ring, dropped, min_dim, result>>

\* A cell that starts no trace.
ScanCell ==
    /\ pc = "scan"
    /\ ~ExteriorStart(contours, cx, cy, OlIn, HlIn)
    /\ ~InteriorStart(contours, cx, cy, OlIn, HlIn)
    /\ FinishCell(contours)
    /\ UNCHANGED <<meshVars, batchVars, triangulateVars, outputVars, dynamic_image, mask, call, outcome, contours, polygons, inner_rings, next_ring,
                   dropped, fault, min_dim, result>>

\* One iteration of `for inner_ring in inner_rings`.
AssignRing ==
    /\ pc = "assign"
    /\ next_ring <= Len(inner_rings)
    /\ LET ring == inner_rings[next_ring]
           idx == BestPolygonIdx(polygons, ring)
       IN  IF idx = 0
             THEN dropped' = dropped + 1 /\ UNCHANGED polygons
             ELSE /\ polygons' = [polygons EXCEPT ![idx] = InteriorsPush(polygons[idx], ring)]
                  /\ UNCHANGED dropped
    /\ next_ring' = next_ring + 1
    /\ UNCHANGED <<meshVars, batchVars, triangulateVars, outputVars, dynamic_image, mask, call, outcome, pc, cx, cy, ol, hl, contours, inner_rings,
                   fault, min_dim, result>>

\* The return of trace(mask, m): the polygons that pass the filter.
ReturnPolygons(m) ==
    /\ pc = "assign"
    /\ next_ring > Len(inner_rings)
    /\ min_dim' = m
    /\ result' = FilterMinDim(polygons, m)
    /\ pc' = "done"
    /\ UNCHANGED <<meshVars, batchVars, triangulateVars, outputVars, dynamic_image, mask, call, outcome, cx, cy, ol, hl, contours, polygons,
                   inner_rings, next_ring, dropped, fault>>

NextTrace ==
    \/ BeginTrace
    \/ TraceExterior
    \/ TraceInterior
    \/ ScanCell
    \/ AssignRing
    \/ \E m \in 0..MaxMinDim : ReturnPolygons(m)

SpecTrace == InitTrace /\ [][NextTrace]_vars

(***************************************************************************)
(* Claims about the tracer (checked under SpecTrace).                      *)
(***************************************************************************)
Returned == pc = "done"
Unfiltered == pc = "done" /\ min_dim = 0

PixelsOf(img) == (0..(img.width - 1)) \X (0..(img.height - 1))
IsFg(img, q) == img.buffer[PixelIndex(img, q[1], q[2]) + 1]
OnBorder(img, q) ==
    q[1] = 0 \/ q[2] = 0 \/ q[1] = img.width - 1 \/ q[2] = img.height - 1

Adjacent4(a, b) == Abs(a[1] - b[1]) + Abs(a[2] - b[2]) = 1
Adjacent8(a, b) == a # b /\ Abs(a[1] - b[1]) <= 1 /\ Abs(a[2] - b[2]) <= 1

\* The pixels 4-adjacent to q.
Neighbours4(img, q) ==
    {r \in {<<q[1] + 1, q[2]>>, <<q[1] - 1, q[2]>>, <<q[1], q[2] + 1>>, <<q[1], q[2] - 1>>} :
        r \in PixelsOf(img)}

\* The 4-connected component of a pixel among the pixels of its own colour,
\* grown from the pixel outwards.
RECURSIVE Flood4(_, _, _, _)
Flood4(img, colour, S, frontier) ==
    IF frontier = {} THEN S
    ELSE LET more == {r \in UNION {Neighbours4(img, q) : q \in frontier} :
                         r \notin S /\ IsFg(img, r) = colour}
         IN  Flood4(img, colour, S \cup more, more)

Component4(img, q) == Flood4(img, IsFg(img, q), {q}, {q})

\* Every component has a pixel with no pixel of its colour above or left of it.
Seeds(img, colour) ==
    {q \in PixelsOf(img) :
        /\ IsFg(img, q) = colour
        /\ \A r \in {<<q[1] - 1, q[2]>>, <<q[1], q[2] - 1>>} :
              r \in PixelsOf(img) => IsFg(img, r) # colour}

FgComponents(img) == {Component4(img, q) : q \in Seeds(img, TRUE)}
BgComponents(img) == {Component4(img, q) : q \in Seeds(img, FALSE)}

\* No pixel of the component lies on the image border.
Enclosed(img, B) == \A q \in B : ~OnBorder(img, q)

\* No background pixel outside the component touches it, even diagonally.
NoDiagonalBackground(img, B) ==
    \A q \in PixelsOf(img) \ B : IsFg(img, q) \/ \A r \in B : ~Adjacent8(q, r)

\* Every ring of the returned polygons, and the interior rings alone, each
\* with the index of its polygon.
ExteriorsOf(polys) == {<<i, polys[i].exterior>> : i \in 1..Len(polys)}
InteriorsOf(polys) ==
    UNION { {<<i, k, polys[i].interiors[k]>> : k \in 1..Len(polys[i].interiors)}
            : i \in 1..Len(polys) }
RingsOf(polys) ==
    {e[2] : e \in ExteriorsOf(polys)} \cup {e[3] : e \in InteriorsOf(polys)}

\* C5 as stated: without size filtering the trace returns exactly one polygon
\* per maximal 4-connected foreground component: every component is the start
\* of exactly one returned exterior, and there are no other polygons.
C5_OnePolygonPerComponent ==
    Unfiltered =>
        /\ Len(result) = Cardinality(FgComponents(mask))
        /\ \A F \in FgComponents(mask) :
              Cardinality({e \in ExteriorsOf(result) : e[2][1] \in F}) = 1

\* The extent of a ring along each axis, from its coordinates.
SpansAtLeast(ring, m) ==
    /\ \E a, b \in 1..Len(ring) : ring[a][1] - ring[b][1] >= m
    /\ \E a, b \in 1..Len(ring) : ring[a][2] - ring[b][2] >= m

RingsStartingIn(polys, B) == {e \in InteriorsOf(polys) : e[3][1] \in B}

\* C7 as stated: every background component with no path of 4-adjacent
\* background pixels to the border yields exactly one interior ring, attached
\* to exactly one polygon and never dropped; other background yields none.
C7_EnclosedBackgroundOneRing ==
    Unfiltered =>
        /\ dropped = 0
        /\ \A B \in BgComponents(mask) :
              Cardinality(RingsStartingIn(result, B)) = IF Enclosed(mask, B) THEN 1 ELSE 0

\* C7 amended: every interior ring that is traced is attached to exactly one
\* returned polygon; background that reaches the border yields no ring; an
\* enclosed background component yields at most one ring, and exactly one
\* when no other background pixel touches it, even diagonally.
C7_IsolatedHoleOneRing ==
    Unfiltered =>
        /\ dropped = 0
        /\ Cardinality(InteriorsOf(result)) = Len(inner_rings)
        /\ \A e \in InteriorsOf(result) : ~IsFg(mask, e[3][1])
        /\ \A B \in BgComponents(mask) :
              LET n == Cardinality(RingsStartingIn(result, B))
              IN  /\ n <= 1
                  /\ ~Enclosed(mask, B) => n = 0
                  /\ (Enclosed(mask, B) /\ NoDiagonalBackground(mask, B)) => n = 1

\* A mask with a hole of its own and with background that reaches the border:
\* the hole has its ring, the outer background has none.
C7_Witness ==
    /\ Unfiltered
    /\ \E B \in BgComponents(mask) :
          /\ Enclosed(mask, B) /\ NoDiagonalBackground(mask, B)
          /\ Cardinality(B) > 1
          /\ Cardinality(RingsStartingIn(result, B)) = 1
    /\ \E B \in BgComponents(mask) : ~Enclosed(mask, B)

C9_RingsClosed ==
    \A r \in RingsOf(polygons) \cup RingsOf(result) :
        Len(r) >= 4 /\ r[1] = r[Len(r)]

\* A returned polygon that carries an interior ring.
C9_Witness ==
    /\ Unfiltered
    /\ \E i \in 1..Len(result) :
          /\ Len(result[i].interiors) > 0
          /\ Len(result[i].exterior) = 5
          /\ Len(result[i].interiors[1]) = 5

\* The shoelace sum of a ring (twice its signed area):
\* the sum of x[i] * y[i+1] - x[i+1] * y[i] over its edges, in image coordinates.
Shoelace2(ring) ==
    SumUpTo([i \in 1..(Len(ring) - 1) |->
                ring[i][1] * ring[i + 1][2] - ring[i + 1][1] * ring[i][2]],
            Len(ring) - 1)

\* C10: every exterior ring has positive shoelace area and every interior
\* ring has negative shoelace area, both by the same formula.
C10_Orientation ==
    /\ \A e \in ExteriorsOf(polygons) \cup ExteriorsOf(result) : Shoelace2(e[2]) > 0
    /\ \A e \in InteriorsOf(polygons) \cup InteriorsOf(result) : Shoelace2(e[3]) < 0

\* A returned polygon whose exterior and interior ring turn opposite ways.
C10_Witness ==
    /\ Unfiltered
    /\ \E e \in InteriorsOf(result) :
          Shoelace2(result[e[1]].exterior) > 0 /\ Shoelace2(e[3]) < 0

\* The cross product (a - o) x (b - o): its sign tells on which side of the
\* line o -> a the point b lies.
Cross(o, a, b) == (a[1] - o[1]) * (b[2] - o[2]) - (a[2] - o[2]) * (b[1] - o[1])

\* The point p lies on the segment a -- b, ends included.
OnSegment(p, a, b) ==
    /\ Cross(a, b, p) = 0
    /\ Min(a[1], b[1]) <= p[1] /\ p[1] <= Max(a[1], b[1])
    /\ Min(a[2], b[2]) <= p[2] /\ p[2] <= Max(a[2], b[2])

\* The segments a -- b and c -- d have a point in common.
SegmentsMeet(a, b, c, d) ==
    \/ /\ Cross(c, d, a) * Cross(c, d, b) < 0
       /\ Cross(a, b, c) * Cross(a, b, d) < 0
    \/ OnSegment(a, c, d) \/ OnSegment(b, c, d)
    \/ OnSegment(c, a, b) \/ OnSegment(d, a, b)

\* The point lies on an edge of the closed ring.
OnRing(p, ring) == \E i \in 1..(Len(ring) - 1) : OnSegment(p, ring[i], ring[i + 1])

\* Inside by the ray-casting test, and on no edge of the ring.
StrictlyInside(p, ring) == PointInPolygon(p, ring) /\ ~OnRing(p, ring)

RingsMeet(r, s) ==
    \E i \in 1..(Len(r) - 1), j \in 1..(Len(s) - 1) :
        SegmentsMeet(r[i], r[i + 1], s[j], s[j + 1])

\* C11: every interior ring attached to a polygon has a vertex strictly inside
\* the polygon's exterior, none of its vertices lies on or outside the
\* exterior, and none of its edges meets an edge of the exterior.
C11_HoleContainment ==
    \A e \in InteriorsOf(polygons) :
        LET ext == polygons[e[1]].exterior
            H == e[3]
        IN  /\ \E k \in 1..Len(H) : StrictlyInside(H[k], ext)
            /\ \A k \in 1..Len(H) : StrictlyInside(H[k], ext)
            /\ ~RingsMeet(H, ext)

\* A trace that returned several polygons, one of which holds a hole whose
\* pixels touch, by a corner, background that is no part of the hole.
C11_Witness ==
    /\ Returned
    /\ Len(polygons) >= 2
    /\ \E e \in InteriorsOf(polygons) :
          \E B \in BgComponents(mask) :
              /\ e[3][1] \in B
              /\ ~NoDiagonalBackground(mask, B)

\* The foreground of the mask is exactly the pixels of [x0, x1) x [y0, y1).
SolidRectangle(img, x0, y0, x1, y1) ==
    /\ x0 < x1 /\ y0 < y1
    /\ \A q \in PixelsOf(img) :
          IsFg(img, q) <=> (x0 <= q[1] /\ q[1] < x1 /\ y0 <= q[2] /\ q[2] < y1)

\* C12 as stated: a mask whose foreground is one filled rectangle
\* [x0, x1) x [y0, y1) is traced as one polygon without interiors whose
\* exterior is the four corners of the rectangle and the closing duplicate.
C12_SolidRectangle ==
    Unfiltered =>
        \A x0, x1 \in 0..mask.width, y0, y1 \in 0..mask.height :
            SolidRectangle(mask, x0, y0, x1, y1) =>
                /\ Len(result) = 1
                /\ result[1].interiors = <<>>
                /\ result[1].exterior =
                      << <<x0, y0>>, <<x1, y0>>, <<x1, y1>>, <<x0, y1>>, <<x0, y0>> >>

\* The mask has no foreground pixel.
AllBackground(img) == \A i \in 1..Len(img.buffer) : ~img.buffer[i]

\* C13: on a mask without foreground no exterior and no interior trace is
\* launched (no ring exists and no cell of the labelling buffer is touched),
\* the call does not fail, and it returns the empty list.
C13_NoForegroundNoTrace ==
    AllBackground(mask) =>
        /\ polygons = <<>> /\ inner_rings = <<>>
        /\ pc # "panicked" /\ fault = "none"
        /\ \A r \in 1..Len(contours) : \A c \in 1..Len(contours[r]) :
              contours[r][c] \in {-1, 0}
        /\ Returned => result = <<>>

\* A returned trace of a background-only mask of several rows and columns.
C13_Witness ==
    /\ Returned
    /\ AllBackground(mask)
    /\ mask.width >= 2 /\ mask.height >= 2
    /\ result = <<>>

(***************************************************************************)
(* Mesh2D::extrude (src/src/mesh.rs).  Coordinates are whole numbers held  *)
(* in f64.  A quotient of two of them is kept exact as a ratio; a          *)
(* sidewall u is kept as the quotient of two sums of edge lengths, each    *)
(* length written as its square (the length is the square root).           *)
(***************************************************************************)
Ratio(n, d) == [kind |-> "ratio", num |-> n, den |-> d]
Arc(walked, total) == [kind |-> "arc", num |-> walked, den |-> total]

MinOf(S) == CHOOSE a \in S : \A b \in S : a <= b
MaxOf(S) == CHOOSE a \in S : \A b \in S : a >= b

RECURSIVE Concat(_, _)
Concat(seqs, k) == IF k = 0 THEN <<>> ELSE Concat(seqs, k - 1) \o seqs[k]

\* The fold over the vertices, then
\*   dx = if (max_x - min_x).abs() < f64::EPSILON { 1.0 } else { max_x - min_x }
\* for whole numbers: the difference is below EPSILON exactly when it is 0.
BoundingBox(m) ==
    LET xs == {m.vertices[i][1] : i \in 1..Len(m.vertices)}
        ys == {m.vertices[i][2] : i \in 1..Len(m.vertices)}
    IN  [min_x |-> MinOf(xs), min_y |-> MinOf(ys),
         dx |-> IF MaxOf(xs) - MinOf(xs) = 0 THEN 1 ELSE MaxOf(xs) - MinOf(xs),
         dy |-> IF MaxOf(ys) - MinOf(ys) = 0 THEN 1 ELSE MaxOf(ys) - MinOf(ys)]

\* vertices.push([*x, *y, z])
ExtrudedVertex(v, z) == <<v[1], v[2], z>>

\* uvs.push([(*x - min_x) / dx, (*y - min_y) / dy])
FaceUV(m, v) ==
    LET bb == BoundingBox(m)
    IN  <<Ratio(v[1] - bb.min_x, bb.dx), Ratio(v[2] - bb.min_y, bb.dy)>>

\* self.indices.chunks(3)
Triangles(m) == Chunks(m.indices, 3)

\* A variant that keeps the winding of the 2D triangle on the front face.
FrontTriangleUnreversed(tri, n) == <<tri[1] + n, tri[2] + n, tri[3] + n>>

\* front_indices.push([i2 + n, i1 + n, i0 + n])
FrontTriangle(tri, n) == <<tri[3] + n, tri[2] + n, tri[1] + n>>

\* back_indices.push([i0, i1, i2])
BackTriangle(tri, n) == <<tri[1], tri[2], tri[3]>>

\* let edge = if i0 < i1 { (i0, i1) } else { (i1, i0) };
EdgeKey(i0, i1) == IF i0 < i1 THEN <<i0, i1>> ELSE <<i1, i0>>

\* The three edges of a triangle: (triangle[e], triangle[(e + 1) % 3]).
TriangleEdges(tri) == [e \in 0..2 |-> EdgeKey(tri[e + 1], tri[((e + 1) % 3) + 1])]

\* edge_count: how often the edge was entered.
EdgeCount(m, edge) ==
    Cardinality({ke \in (1..Len(Triangles(m))) \X (0..2) :
                    TriangleEdges(Triangles(m)[ke[1]])[ke[2]] = edge})

EdgesOf(m) ==
    {TriangleEdges(Triangles(m)[k])[e] : k \in 1..Len(Triangles(m)), e \in 0..2}

\* A variant that takes every edge for a boundary edge.
IsBoundaryEdgeAlways(m, edge) == EdgeCount(m, edge) >= 1

\* .filter(|&(_, &count)| count == 1)
IsBoundaryEdge(m, edge) == EdgeCount(m, edge) = 1

BoundaryEdgeSet(m) == {edge \in EdgesOf(m) : IsBoundaryEdge(m, edge)}

\* boundary_edges after sort_by_key(|&(i0, i1)| i0.min(i1)): the map is
\* iterated in an order the program does not fix and the sort is stable, so
\* edges with the same key may come in either order.
RECURSIVE BoundaryOrders(_)
BoundaryOrders(S) ==
    IF S = {} THEN {<<>>}
    ELSE LET k == MinOf({Min(edge[1], edge[2]) : edge \in S})
         IN  UNION { {<<edge>> \o rest : rest \in BoundaryOrders(S \ {edge})}
                     : edge \in {e \in S : Min(e[1], e[2]) = k} }

\* (p1[0] - p0[0]).powi(2) + (p1[1] - p0[1]).powi(2), the square of edge_length.
EdgeLengthSquared(m, edge) ==
    LET p0 == m.vertices[edge[1] + 1]
        p1 == m.vertices[edge[2] + 1]
    IN  (p1[1] - p0[1]) * (p1[1] - p0[1]) + (p1[2] - p0[2]) * (p1[2] - p0[2])

\* The four vertices, four UVs and two triangles of the j-th side quad.
SideQuad(m, d, boundary_edges, j) ==
    LET p0 == m.vertices[boundary_edges[j][1] + 1]
        p1 == m.vertices[boundary_edges[j][2] + 1]
        lengths == [k \in 1..Len(boundary_edges) |->
                       EdgeLengthSquared(m, boundary_edges[k])]
        u0 == Arc(SubSeq(lengths, 1, j - 1), lengths)
        u1 == Arc(SubSeq(lengths, 1, j), lengths)
        base_idx == 2 * Len(m.vertices) + 4 * (j - 1)
    IN  [vertices |-> <<ExtrudedVertex(p0, 0), ExtrudedVertex(p1, 0),
                        ExtrudedVertex(p1, d), ExtrudedVertex(p0, d)>>,
         uvs |-> << <<u0, Ratio(0, 1)>>, <<u1, Ratio(0, 1)>>,
                    <<u1, Ratio(1, 1)>>, <<u0, Ratio(1, 1)>> >>,
         indices |-> << <<base_idx, base_idx + 1, base_idx + 2>>,
                        <<base_idx, base_idx + 2, base_idx + 3>> >>]

\* extrude(&self, depth), with the order the boundary edges came in.
Extrude(m, d, boundary_edges) ==
    LET n == Len(m.vertices)
        T == Len(Triangles(m))
        B == Len(boundary_edges)
        quad(j) == SideQuad(m, d, boundary_edges, j)
    IN  [vertices |->
            [i \in 1..n |-> ExtrudedVertex(m.vertices[i], 0)]
            \o [i \in 1..n |-> ExtrudedVertex(m.vertices[i], d)]
            \o Concat([j \in 1..B |-> quad(j).vertices], B),
         uvs |->
            [i \in 1..n |-> FaceUV(m, m.vertices[i])]
            \o [i \in 1..n |-> FaceUV(m, m.vertices[i])]
            \o Concat([j \in 1..B |-> quad(j).uvs], B),
         faces |->
            << [name |-> "front",
                indices |-> [k \in 1..T |-> FrontTriangle(Triangles(m)[k], n)]],
               [name |-> "back",
                indices |-> [k \in 1..T |-> BackTriangle(Triangles(m)[k], n)]],
               [name |-> "side",
                indices |-> Concat([j \in 1..B |-> quad(j).indices], B)] >>]

(***************************************************************************)
(* The meshes handed to extrude: what PolygonMesh::mesh2d returns, vertices *)
(* at distinct grid points and triangles of three distinct indices.        *)
(***************************************************************************)
MeshPoints == (0..MaxCoord) \X (0..MaxCoord)

Injective(s) == \A i, j \in 1..Len(s) : i # j => s[i] # s[j]

VertexLists == {s \in SeqsUpTo(MeshPoints, MaxMeshVertices) : Injective(s)}

TriplesBelow(n) ==
    {tri \in (0..(n - 1)) \X (0..(n - 1)) \X (0..(n - 1)) :
        tri[1] # tri[2] /\ tri[2] # tri[3] /\ tri[1] # tri[3]}

Meshes2D ==
    UNION { { [vertices |-> vs, indices |-> Concat(tris, Len(tris))]
              : tris \in SeqsUpTo(TriplesBelow(Len(vs)), MaxTriangles) }
            : vs \in VertexLists }

restVars == <<mask, call, outcome, cx, cy, ol, hl, contours, polygons, inner_rings,
              next_ring, dropped, fault, min_dim, result>>

InitExtrude ==
    /\ mask = DefaultImage /\ call = NoCall /\ outcome = NoOutcome
    /\ TraceIdle
    /\ pc = "mesh2d"
    /\ mesh2d \in Meshes2D
    /\ depth \in 0..MaxDepth
    /\ image_w \in 1..MaxImageSide /\ image_h \in 1..MaxImageSide
    /\ mesh3d = NewMesh3D
    /\ ExportIdle
    /\ BatchIdle
    /\ TriangulateIdle
    /\ OutputsIdle
    /\ dynamic_image = NoImage

\* let mesh3d = mesh2d.extrude(depth);
ExtrudeMesh ==
    /\ pc = "mesh2d"
    /\ \E boundary_edges \in BoundaryOrders(BoundaryEdgeSet(mesh2d)) :
          mesh3d' = Extrude(mesh2d, depth, boundary_edges)
    /\ pc' = "mesh3d"
    /\ UNCHANGED <<restVars, batchVars, triangulateVars, outputVars, dynamic_image, exportVars, mesh2d, depth, image_w, image_h>>

NextExtrude == ExtrudeMesh

SpecExtrude == InitExtrude /\ [][NextExtrude]_vars

(***************************************************************************)
(* Claims about the extrusion (checked under SpecExtrude).                 *)
(***************************************************************************)
Extruded == pc = "mesh3d"

VertexCount == Len(mesh2d.vertices)

\* The vertex indices of the k-th 2D triangle, as a set.
CornersOf(k) ==
    {mesh2d.indices[3 * k - 2], mesh2d.indices[3 * k - 1], mesh2d.indices[3 * k]}

\* The unordered vertex pairs that occur in exactly n triangles, for n in ns.
PairsInTriangles(ns) ==
    {S \in SUBSET (0..(VertexCount - 1)) :
        /\ Cardinality(S) = 2
        /\ Cardinality({k \in 1..(Len(mesh2d.indices) \div 3) : S \subseteq CornersOf(k)}) \in ns}

FaceGroup(name) == CHOOSE g \in {mesh3d.faces[i] : i \in 1..Len(mesh3d.faces)} : g.name = name

\* The side quads: the x, y of the first two vertices of each group of four
\* vertices after the front and back copies.
SideQuadEnds ==
    {{ <<mesh3d.vertices[b + 1][1], mesh3d.vertices[b + 1][2]>>,
       <<mesh3d.vertices[b + 2][1], mesh3d.vertices[b + 2][2]>> }
        : b \in {2 * VertexCount + 4 * (j - 1)
                    : j \in 1..((Len(mesh3d.vertices) - 2 * VertexCount) \div 4)}}

\* C14: with n vertices, T triangles and B boundary edges (vertex pairs that
\* occur in exactly one triangle) the extruded mesh has 2n + 4B vertices and
\* as many UVs, T front, T back and 2B side triangles, and no side quad stands
\* on an edge that two triangles share.
C14_ExtrusionCounts ==
    Extruded =>
        LET n == VertexCount
            T == Len(mesh2d.indices) \div 3
            B == Cardinality(PairsInTriangles({1}))
        IN  /\ Len(mesh3d.vertices) = 2 * n + 4 * B
            /\ Len(mesh3d.uvs) = 2 * n + 4 * B
            /\ Len(mesh3d.faces) = 3
            /\ Len(FaceGroup("front").indices) = T
            /\ Len(FaceGroup("back").indices) = T
            /\ Len(FaceGroup("side").indices) = 2 * B
            /\ \A S \in PairsInTriangles(2..MaxTriangles) :
                  {mesh2d.vertices[i + 1] : i \in S} \notin SideQuadEnds

\* Two triangles on four vertices that share one edge, in opposite
\* directions: four boundary edges, twenty-four vertices.
C14_Witness ==
    /\ Extruded
    /\ VertexCount = 4
    /\ mesh2d.indices = <<0, 1, 2, 2, 1, 3>>
    /\ Len(mesh3d.vertices) = 24
    /\ Len(FaceGroup("side").indices) = 8

\* C15 as stated: output vertex i is (x, -y, 0), output vertex i + n is
\* (x, -y, depth), and every side vertex is some 2D vertex with y negated.
C15_FlippedY ==
    Extruded =>
        /\ \A i \in 1..VertexCount :
              /\ mesh3d.vertices[i] = <<mesh2d.vertices[i][1], -mesh2d.vertices[i][2], 0>>
              /\ mesh3d.vertices[i + VertexCount] =
                    <<mesh2d.vertices[i][1], -mesh2d.vertices[i][2], depth>>
        /\ \A k \in (2 * VertexCount + 1)..Len(mesh3d.vertices) :
              \E i \in 1..VertexCount :
                  /\ mesh3d.vertices[k][1] = mesh2d.vertices[i][1]
                  /\ mesh3d.vertices[k][2] = -mesh2d.vertices[i][2]
                  /\ mesh3d.vertices[k][3] \in {0, depth}

\* Two exact quotients with positive denominators are the same number.
SameRatio(a, b) == a.num * b.den = b.num * a.den

\* C16 as stated: the front copy and the back copy of every 2D vertex (x, y)
\* carry the UV (x / image_w, -y / image_h).
C16_ImageSpaceUV ==
    Extruded =>
        \A i \in 1..VertexCount : \A k \in {i, i + VertexCount} :
            /\ SameRatio(mesh3d.uvs[k][1], Ratio(mesh2d.vertices[i][1], image_w))
            /\ SameRatio(mesh3d.uvs[k][2], Ratio(-mesh2d.vertices[i][2], image_h))

(***************************************************************************)
(* Mesh3D::export_obj and Mesh3D::export_mtl (src/src/mesh.rs).  A file is *)
(* a sequence of lines, a line a keyword with its arguments; a number      *)
(* stands for the text that Display prints for it, a path for the sequence *)
(* of its components.                                                      *)
(***************************************************************************)
Line(tag, args) == [tag |-> tag, args |-> args]

\* The empty line that the "\n" in front of "newmtl back" leaves.
BlankLine == Line("", <<>>)

\* File::create: the file exists and is empty, whatever it held.
Created == [exists |-> TRUE, lines |-> <<>>]

WriteTo(file, lines) == [file EXCEPT !.lines = @ \o lines]

\* mtl_path.file_name()
FileName(path) == path[Len(path)]

\* One material: the eight writeln! of export_mtl.  Each writeln! is one
\* write; the one that starts the back and the side material carries the
\* empty line with it.
MaterialWrites(name, texture, first) ==
    << (IF first THEN <<>> ELSE <<BlankLine>>) \o <<Line("newmtl", <<name>>)>>,
       <<Line("Ka", <<1, 1, 1>>)>>,
       <<Line("Kd", <<1, 1, 1>>)>>,
       <<Line("Ks", <<0, 0, 0>>)>>,
       <<Line("d", <<1>>)>>,
       <<Line("Ns", <<10>>)>>,
       <<Line("illum", <<2>>)>>,
       <<Line("map_Kd", <<texture>>)>> >>

\* The writes of export_mtl, in order.
MtlWrites(args) ==
    MaterialWrites("front", args.front_texture, TRUE)
        \o MaterialWrites("back", args.back_texture, FALSE)
        \o MaterialWrites("side", args.side_texture, FALSE)

\* A variant that writes the 0-based index.
FaceLineZeroBased(tri) ==
    Line("f", <<<<tri[1], tri[1]>>, <<tri[2], tri[2]>>, <<tri[3], tri[3]>>>>)

\* writeln!(writer, "f {0}/{0} {1}/{1} {2}/{2}", i0 + 1, i1 + 1, i2 + 1)
FaceLine(tri) ==
    Line("f", <<<<tri[1] + 1, tri[1] + 1>>, <<tri[2] + 1, tri[2] + 1>>,
                <<tri[3] + 1, tri[3] + 1>>>>)

\* usemtl, g and the f lines of one group.
GroupLines(group) ==
    <<Line("usemtl", <<group.name>>), Line("g", <<group.name>>)>>
        \o [k \in 1..Len(group.indices) |-> FaceLine(group.indices[k])]

\* The lines export_obj hands to the BufWriter, in order.
ObjLines(m, args) ==
    <<Line("mtllib", <<FileName(args.mtl_path)>>), Line("o", <<"Mesh3D">>)>>
        \o [i \in 1..Len(m.vertices) |-> Line("v", m.vertices[i])]
        \o [i \in 1..Len(m.uvs) |-> Line("vt", m.uvs[i])]
        \o Concat([g \in 1..Len(m.faces) |-> GroupLines(m.faces[g])], Len(m.faces))

\* The number of lines in the first k writes.
RECURSIVE LinesIn(_, _)
LinesIn(writes, k) == IF k = 0 THEN 0 ELSE LinesIn(writes, k - 1) + Len(writes[k])

\* The writes of export_mtl that are done when the file holds n lines.
WritesDone(writes, n) == CHOOSE k \in 0..Len(writes) : LinesIn(writes, k) = n

\* BufWriter::flush_buf: the lines go to the file one after the other; a
\* failed write leaves the lines before it in the file and the others in
\* the buffer.
FlushOutcomes(buf) ==
    {[written |-> SubSeq(buf, 1, k), left |-> SubSeq(buf, k + 1, Len(buf)),
      ok |-> k = Len(buf)] : k \in 0..Len(buf)}

(***************************************************************************)
(* The exports of the model: the Mesh3D values that extrude returns for a  *)
(* triangle-sized mesh, the file names of the pipeline, output files that  *)
(* are absent or left over from an earlier run.                            *)
(***************************************************************************)
ExportMeshes2D ==
    { [vertices |-> <<<<0, 0>>, <<1, 0>>, <<0, 1>>>>, indices |-> Concat(tris, Len(tris))]
        : tris \in SeqsUpTo({tri \in TriplesBelow(3) : tri[1] = 0}, 1) }

ExportMeshes ==
    UNION { {Extrude(m, MaxDepth, boundary_edges)
                : boundary_edges \in BoundaryOrders(BoundaryEdgeSet(m))}
            : m \in ExportMeshes2D }

\* front is "{asset}.png"; back and side are "back.png" / "side.png" when
\* configured and the front texture otherwise.
ExportArgs ==
    { [obj_path |-> <<"out", "asset_0.obj">>, mtl_path |-> <<"out", "asset_0.mtl">>,
       front_texture |-> "asset.png", back_texture |-> b, side_texture |-> s]
        : b \in {"asset.png", "back.png"}, s \in {"asset.png", "side.png"} }

LeftOver == [exists |-> TRUE, lines |-> <<Line("#", <<"earlier run">>)>>]

extrudeVars == <<mesh2d, depth, image_w, image_h>>

InitExport ==
    /\ mask = DefaultImage /\ call = NoCall /\ outcome = NoOutcome
    /\ TraceIdle
    /\ mesh2d = NoMesh2D /\ depth = MaxDepth /\ image_w = 0 /\ image_h = 0
    /\ pc = "export"
    /\ mesh3d \in ExportMeshes
    /\ export_args \in ExportArgs
    /\ files \in [obj : {NoFile, LeftOver}, mtl : {NoFile, LeftOver}]
    /\ writer = <<>> /\ io_failed = FALSE /\ ret = "none"
    /\ BatchIdle
    /\ TriangulateIdle
    /\ OutputsIdle
    /\ dynamic_image = NoImage

\* The call returns Err through a `?`.
ReturnErr ==
    /\ io_failed' = TRUE
    /\ ret' = "err"
    /\ pc' = "returned"

\* export_mtl: let mut file = File::create(path)?;
CreateMtl ==
    /\ pc = "export"
    /\ \/ /\ files' = [files EXCEPT !.mtl = Created]
          /\ pc' = "mtl"
          /\ UNCHANGED <<io_failed, ret>>
       \/ /\ ReturnErr
          /\ UNCHANGED files
    /\ UNCHANGED <<restVars, batchVars, triangulateVars, outputVars, dynamic_image, extrudeVars, mesh3d, export_args, writer>>

\* export_mtl: the next writeln!(file, ...)?; the File is not buffered.
WriteMtl ==
    LET writes == MtlWrites(export_args)
        k == WritesDone(writes, Len(files.mtl.lines))
    IN  /\ pc = "mtl"
        /\ k < Len(writes)
        /\ \/ /\ files' = [files EXCEPT !.mtl = WriteTo(@, writes[k + 1])]
              /\ UNCHANGED <<pc, io_failed, ret>>
           \/ /\ ReturnErr
              /\ UNCHANGED files
        /\ UNCHANGED <<restVars, batchVars, triangulateVars, outputVars, dynamic_image, extrudeVars, mesh3d, export_args, writer>>

\* export_mtl returned Ok:  let file = File::create(obj_path)?;
\*                          let mut writer = BufWriter::new(file);
CreateObj ==
    /\ pc = "mtl"
    /\ WritesDone(MtlWrites(export_args), Len(files.mtl.lines)) = Len(MtlWrites(export_args))
    /\ \/ /\ files' = [files EXCEPT !.obj = Created]
          /\ pc' = "obj"
          /\ UNCHANGED <<io_failed, ret>>
       \/ /\ ReturnErr
          /\ UNCHANGED files
    /\ writer' = <<>>
    /\ UNCHANGED <<restVars, batchVars, triangulateVars, outputVars, dynamic_image, extrudeVars, mesh3d, export_args>>

\* The next writeln!(writer, ...)?: a line goes into the buffer; a full
\* buffer is flushed first, and a flush that fails returns Err, which drops
\* the writer: the drop flushes what is left and ignores the result.
WriteObj ==
    LET lines == ObjLines(mesh3d, export_args)
        pos == Len(files.obj.lines) + Len(writer)
    IN  /\ pc = "obj"
        /\ pos < Len(lines)
        /\ IF Len(writer) < BufCapacity
           THEN /\ writer' = Append(writer, lines[pos + 1])
                /\ UNCHANGED <<files, pc, io_failed, ret>>
           ELSE \E flush \in FlushOutcomes(writer) :
                   IF flush.ok
                   THEN /\ files' = [files EXCEPT !.obj = WriteTo(@, flush.written)]
                        /\ writer' = <<lines[pos + 1]>>
                        /\ UNCHANGED <<pc, io_failed, ret>>
                   ELSE \E drop \in FlushOutcomes(flush.left) :
                           /\ files' = [files EXCEPT
                                          !.obj = WriteTo(@, flush.written \o drop.written)]
                           /\ writer' = <<>>
                           /\ ReturnErr
        /\ UNCHANGED <<restVars, batchVars, triangulateVars, outputVars, dynamic_image, extrudeVars, mesh3d, export_args>>

\* Ok(()) at the end of export_obj: the writer is dropped, the drop flushes
\* the buffer and ignores the result.
ReturnOk ==
    /\ pc = "obj"
    /\ Len(files.obj.lines) + Len(writer) = Len(ObjLines(mesh3d, export_args))
    /\ \E drop \in FlushOutcomes(writer) :
          /\ files' = [files EXCEPT !.obj = WriteTo(@, drop.written)]
          /\ io_failed' = ~drop.ok
    /\ writer' = <<>>
    /\ ret' = "ok"
    /\ pc' = "returned"
    /\ UNCHANGED <<restVars, batchVars, triangulateVars, outputVars, dynamic_image, extrudeVars, mesh3d, export_args>>

NextExport ==
    \/ CreateMtl
    \/ WriteMtl
    \/ CreateObj
    \/ WriteObj
    \/ ReturnOk

SpecExport == InitExport /\ [][NextExport]_vars

(***************************************************************************)
(* Claims about the export (checked under SpecExport).                     *)
(***************************************************************************)
IsPrefix(s, t) == Len(s) <= Len(t) /\ SubSeq(t, 1, Len(s)) = s

ExportReturned == pc = "returned"

\* The OBJ file is the one this call created.
ObjCreated == files.obj.exists /\ files.obj # LeftOver

GroupNamed(name) == CHOOSE g \in {mesh3d.faces[i] : i \in 1..Len(mesh3d.faces)} : g.name = name

\* usemtl, g and one f line per triangle, each index one more than the
\* internal index, in the vertex and in the texture slot.
C17_Group(name) ==
    <<Line("usemtl", <<name>>), Line("g", <<name>>)>>
        \o [k \in 1..Len(GroupNamed(name).indices) |->
               Line("f", [c \in 1..3 |-> <<GroupNamed(name).indices[k][c] + 1,
                                           GroupNamed(name).indices[k][c] + 1>>])]

C17_Expected ==
    <<Line("mtllib", <<"asset_0.mtl">>), Line("o", <<"Mesh3D">>)>>
        \o [i \in 1..Len(mesh3d.vertices) |-> Line("v", mesh3d.vertices[i])]
        \o [i \in 1..Len(mesh3d.vertices) |-> Line("vt", mesh3d.uvs[i])]
        \o C17_Group("front") \o C17_Group("back") \o C17_Group("side")

\* C17: what export_obj has written so far (the file, then the buffer) is
\* always a beginning of: mtllib, o, the v lines, as many vt lines, then
\* usemtl, g and the f lines of front, back and side, every f index being
\* the internal index plus 1, within 1..vertices.length, the same in both
\* slots; a call that returns Ok with no failed write leaves exactly that.
C17_ObjOrderAndIndices ==
    /\ pc = "obj" => IsPrefix(files.obj.lines \o writer, C17_Expected)
    /\ ExportReturned /\ ObjCreated => IsPrefix(files.obj.lines, C17_Expected)
    /\ ExportReturned /\ ret = "ok" /\ ~io_failed => files.obj.lines = C17_Expected
    /\ ObjCreated =>
          \A i \in 1..Len(files.obj.lines) :
              files.obj.lines[i].tag = "f" =>
                  \A c \in 1..3 :
                      /\ files.obj.lines[i].args[c][1] \in 1..Len(mesh3d.vertices)
                      /\ files.obj.lines[i].args[c][2] = files.obj.lines[i].args[c][1]

\* A complete OBJ file with a front, a back and six side triangles.
C17_Witness ==
    /\ ExportReturned /\ ret = "ok" /\ ~io_failed
    /\ Len(GroupNamed("front").indices) = 1
    /\ Len(GroupNamed("side").indices) = 6
    /\ Cardinality({i \in 1..Len(files.obj.lines) : files.obj.lines[i].tag = "f"}) = 8

\* export_mtl has made all its writes.
MtlComplete ==
    /\ files.mtl.exists
    /\ Cardinality({i \in 1..Len(files.mtl.lines) : files.mtl.lines[i].tag = "map_Kd"}) = 3

\* The positions of the newmtl lines, in order.
MaterialStarts ==
    {i \in 1..Len(files.mtl.lines) : files.mtl.lines[i].tag = "newmtl"}

\* The lines of the material that starts at line i: up to the next newmtl.
MaterialBlock(i) ==
    LET later == {j \in MaterialStarts : j > i}
        end == IF later = {} THEN Len(files.mtl.lines)
               ELSE (CHOOSE j \in later : \A k \in later : j <= k) - 1
    IN  SubSeq(files.mtl.lines, i, end)

Has(block, tag, args) ==
    \E k \in 1..Len(block) : block[k].tag = tag /\ block[k].args = args

\* C18 as stated: three materials front, back, side in that order, each
\* with Kd 1 1 1, Ks 0 0 0, d 1.0, Ns 10.0, illum 2 and map_Kd
\* textures/<texture_name> for the texture name passed for that group.
C18_MtlContent ==
    MtlComplete =>
        /\ Cardinality(MaterialStarts) = 3
        /\ \A n \in 1..3 :
              \E i \in MaterialStarts :
                  /\ Cardinality({j \in MaterialStarts : j < i}) = n - 1
                  /\ files.mtl.lines[i].args = <<(<<"front", "back", "side">>)[n]>>
                  /\ Has(MaterialBlock(i), "Kd", <<1, 1, 1>>)
                  /\ Has(MaterialBlock(i), "Ks", <<0, 0, 0>>)
                  /\ Has(MaterialBlock(i), "d", <<1>>)
                  /\ Has(MaterialBlock(i), "Ns", <<10>>)
                  /\ Has(MaterialBlock(i), "illum", <<2>>)
                  /\ Has(MaterialBlock(i), "map_Kd",
                         <<"textures",
                           (<<export_args.front_texture, export_args.back_texture,
                              export_args.side_texture>>)[n]>>)

\* C19 as stated: a call in which a file creation or a write failed returns
\* the error; nothing is cleaned up (an OBJ file that was created has the
\* complete MTL file next to it); after a failure of the MTL step the OBJ
\* file was not created.
C19_FailureIsError ==
    ExportReturned =>
        /\ io_failed => ret = "err"
        /\ ObjCreated => MtlComplete
        /\ ~MtlComplete => ~ObjCreated /\ ret = "err"

(***************************************************************************)
(* The batch loop of main (src/bin/src/main.rs): process_single_file is    *)
(* called on one input after the other; every stage of it may fail.        *)
(***************************************************************************)
\* The steps of process_single_file that end in a `?`, in order.
Stages ==
    <<"open_texture", "open_mask", "save_textures", "save_intermediates",
      "mesh2d", "export_obj">>

\* How a call of export_obj can end: with Err after a failed creation or
\* write, or with Ok(()) after the drop of the BufWriter, whose flush may
\* have failed.
ExportObjResults ==
    {[io_failed |-> TRUE, ret |-> "err"]}
        \cup {[io_failed |-> ~drop.ok, ret |-> "ok"]
                : drop \in FlushOutcomes(<<Line("o", <<"Mesh3D">>)>>)}

\* How a call of process_single_file can end: Err from the stage that
\* failed, or Ok(smooth_polygons.len()).  The export stage runs once per
\* polygon and hands on what export_obj returned.
ProcessSingleFileOutcomes ==
    {[failed_stage |-> Stages[s], returned |-> "err", polygon_count |-> 0]
        : s \in 1..(Len(Stages) - 1)}
    \cup {[failed_stage |-> "none", returned |-> "ok", polygon_count |-> 0]}
    \cup {[failed_stage |-> IF r.io_failed THEN "export_obj" ELSE "none",
           returned |-> r.ret,
           polygon_count |-> IF r.ret = "ok" THEN c ELSE 0]
            : r \in ExportObjResults, c \in 1..MaxPolygons}

InitBatch ==
    /\ mask = DefaultImage /\ call = NoCall /\ outcome = NoOutcome
    /\ TraceIdle
    /\ MeshIdle
    /\ TriangulateIdle
    /\ OutputsIdle
    /\ dynamic_image = NoImage
    /\ pc = "batch"
    /\ continue_on_error \in BOOLEAN
    /\ input_count \in 1..MaxInputs
    /\ next_input = 1
    /\ stats = NewStats(input_count)
    /\ invocations = <<>>
    /\ run = "running"

\* One turn of  for input_file in &input_files { match process_single_file(..) }
ProcessNextFile ==
    /\ pc = "batch"
    /\ next_input <= input_count
    /\ \E r \in ProcessSingleFileOutcomes :
          /\ invocations' = Append(invocations,
                                   [input |-> next_input, failed_stage |-> r.failed_stage,
                                    returned |-> r.returned])
          /\ IF r.returned = "ok"
             THEN /\ stats' = [stats EXCEPT !.processed = @ + 1,
                                            !.total_polygons = @ + r.polygon_count]
                  /\ next_input' = next_input + 1
                  /\ UNCHANGED <<pc, run>>
             ELSE /\ stats' = [stats EXCEPT !.failed = @ + 1]
                  /\ IF ~continue_on_error
                     THEN /\ run' = "err"
                          /\ pc' = "exit"
                          /\ UNCHANGED next_input
                     ELSE /\ next_input' = next_input + 1
                          /\ UNCHANGED <<pc, run>>
    /\ UNCHANGED <<restVars, meshVars, triangulateVars, outputVars, dynamic_image, continue_on_error, input_count>>

\* The loop is over: the summary is printed and main returns Ok(()).
FinishBatch ==
    /\ pc = "batch"
    /\ next_input > input_count
    /\ run' = "ok"
    /\ pc' = "exit"
    /\ UNCHANGED <<restVars, meshVars, triangulateVars, outputVars, dynamic_image, continue_on_error, input_count, next_input,
                   stats, invocations>>

NextBatch ==
    \/ ProcessNextFile
    \/ FinishBatch

SpecBatch == InitBatch /\ [][NextBatch]_vars

(***************************************************************************)
(* Claims about the batch loop (checked under SpecBatch).                  *)
(***************************************************************************)
InBatch == pc \in {"batch", "exit"}

\* The invocations in which a stage failed.
FailedInvocations ==
    {k \in 1..Len(invocations) : invocations[k].failed_stage # "none"}

\* C20 as stated: an invocation in which a stage failed returns the error
\* to the loop; inputs are taken in order, each at most once; without
\* continue_on_error nothing is processed after the first failing input and
\* the run returns the error; with it the run does not stop and a finished
\* run has processed every input once; processed + failed never exceeds the
\* number of inputs and equals it when the loop runs to the end.
C20_BatchErrorPolicy ==
    InBatch =>
        /\ \A k \in FailedInvocations : invocations[k].returned = "err"
        /\ \A k \in 1..Len(invocations) : invocations[k].input = k
        /\ ~continue_on_error =>
              /\ \A k \in FailedInvocations : k = Len(invocations)
              /\ FailedInvocations # {} => run = "err"
        /\ continue_on_error =>
              /\ run # "err"
              /\ run = "ok" => Len(invocations) = input_count
        /\ stats.processed + stats.failed <= input_count
        /\ run = "ok" => stats.processed + stats.failed = input_count

(***************************************************************************)
(* Further claims about the extrusion (checked under SpecExtrude).         *)
(***************************************************************************)
\* The k-th triangle of the Mesh2D, (i0, i1, i2).
Triangle2D(k) ==
    <<mesh2d.indices[3 * k - 2], mesh2d.indices[3 * k - 1], mesh2d.indices[3 * k]>>

IndicesOf(group) == {group.indices[k][c] : k \in 1..Len(group.indices), c \in 1..3}

SideQuadCount == (Len(mesh3d.vertices) - 2 * VertexCount) \div 4

\* The index of the first vertex of the j-th side quad.
SideBase(j) == 2 * VertexCount + 4 * (j - 1)

\* C25 as stated: each side quad stands on a boundary edge (p0, p1), its
\* four fresh vertices at b >= 2n are p0 and p1 at z = 0, then p1 and p0 at
\* z = depth, with v = 0 at z = 0 and v = -1 at z = depth; u starts at 0,
\* each quad starts where the one before ended; the side triangles are
\* exactly (b, b+1, b+2) and (b, b+2, b+3).
C25_Sidewalls ==
    Extruded =>
        LET side == FaceGroup("side")
            V(i) == mesh3d.vertices[i + 1]
            UV(i) == mesh3d.uvs[i + 1]
        IN  /\ Len(side.indices) = 2 * SideQuadCount
            /\ SideQuadCount = Cardinality(PairsInTriangles({1}))
            /\ \A j \in 1..SideQuadCount :
                  LET b == SideBase(j)
                  IN  /\ \E S \in PairsInTriangles({1}) : \E i0, i1 \in S :
                            /\ i0 # i1
                            /\ V(b) = <<mesh2d.vertices[i0 + 1][1], mesh2d.vertices[i0 + 1][2], 0>>
                            /\ V(b + 1) = <<mesh2d.vertices[i1 + 1][1], mesh2d.vertices[i1 + 1][2], 0>>
                            /\ V(b + 2) = <<mesh2d.vertices[i1 + 1][1], mesh2d.vertices[i1 + 1][2], depth>>
                            /\ V(b + 3) = <<mesh2d.vertices[i0 + 1][1], mesh2d.vertices[i0 + 1][2], depth>>
                      /\ SameRatio(UV(b)[2], Ratio(0, 1))
                      /\ SameRatio(UV(b + 1)[2], Ratio(0, 1))
                      /\ SameRatio(UV(b + 2)[2], Ratio(-1, 1))
                      /\ SameRatio(UV(b + 3)[2], Ratio(-1, 1))
                      /\ UV(b + 3)[1] = UV(b)[1]
                      /\ UV(b + 2)[1] = UV(b + 1)[1]
                      /\ (j = 1 => UV(b)[1].num = <<>>)
                      /\ (j > 1 => UV(b)[1] = UV(SideBase(j - 1) + 1)[1])
                      /\ side.indices[2 * j - 1] = <<b, b + 1, b + 2>>
                      /\ side.indices[2 * j] = <<b, b + 2, b + 3>>
            /\ \A i \in IndicesOf(side) : i >= 2 * VertexCount

\* C26 as stated: the extruded mesh is the same for every order in which
\* the edge-count map can hand over the boundary edges.
C26_DeterministicSidewalls ==
    Extruded =>
        \A boundary_edges \in BoundaryOrders(BoundaryEdgeSet(mesh2d)) :
            mesh3d = Extrude(mesh2d, depth, boundary_edges)

(***************************************************************************)
(* Further claims about the tracer (checked under SpecTrace).              *)
(***************************************************************************)
TraceRunning == pc \in {"scan", "assign", "done", "panicked"}

\* The cells of the mask inside the padded buffer.
InnerCells == (1..mask.width) \X (1..mask.height)

\* C27: no trace runs into a panic (an index outside the buffer, a cell
\* outside the signed byte) or fails to leave its loops, the scan cursor and
\* its neighbours stay inside the (height+2) x (width+2) buffer, and every
\* cell stays a signed byte.
C27_TracerNeverFails ==
    /\ fault = "none"
    /\ pc # "panicked"
    /\ TraceRunning =>
          /\ Len(contours) = mask.height + 2
          /\ \A r \in 1..Len(contours) :
                /\ Len(contours[r]) = mask.width + 2
                /\ \A c \in 1..Len(contours[r]) : contours[r][c] \in I8Min..I8Max
    /\ pc = "scan" =>
          /\ cx \in 1..mask.width /\ cy \in 1..mask.height
          /\ InBuffer(contours, cx - 1, cy - 1) /\ InBuffer(contours, cx + 1, cy + 1)

\* A mask with a pixel in the image corner, a one-pixel-wide line and two
\* components that touch at a corner, traced to the end.
C27_Witness ==
    /\ Returned
    /\ fault = "none"
    /\ mask.width = 3 /\ mask.height = 3
    /\ mask.buffer = <<TRUE, FALSE, FALSE,
                       FALSE, TRUE, TRUE,
                       FALSE, FALSE, FALSE>>
    /\ Len(polygons) = 2

\* The traces that the current cell of the scan starts.
TracesDue ==
    IF pc # "scan" THEN {}
    ELSE IF ExteriorStart(contours, cx, cy, OlIn, HlIn) THEN {ExteriorParams(cx, cy)}
    ELSE IF InteriorStart(contours, cx, cy, OlIn, HlIn) THEN {InteriorParams(cx, cy)}
    ELSE {}

\* C28: in the ring that trace_polygon returns, as traced and not yet
\* closed, the first coordinate occurs once and no two consecutive
\* coordinates are equal, for exterior and interior traces.
C28_StartCornerOnce ==
    \A p \in TracesDue :
        LET ring == TracePolygon(contours, p).ring
        IN  /\ Len(ring) >= 1
            /\ Cardinality({i \in 1..Len(ring) : ring[i] = ring[1]}) = 1
            /\ \A i \in 1..(Len(ring) - 1) : ring[i] # ring[i + 1]

\* An interior trace is about to start.
C28_Witness ==
    /\ pc = "scan"
    /\ InteriorStart(contours, cx, cy, OlIn, HlIn)
    /\ Len(TracePolygon(contours, InteriorParams(cx, cy)).ring) >= 4

\* C29: after the counter update of every cell 0 <= hl <= ol, at the end of
\* every row ol = hl = 0, and the cells of the mask keep |C| in 1..16.
C29_CountersBalanced ==
    pc \in {"scan", "assign"} =>
        /\ 0 <= hl /\ hl <= ol
        /\ (pc = "assign" \/ cx = 1) => ol = 0 /\ hl = 0
        /\ \A q \in InnerCells : Abs(Cell(contours, q[1], q[2])) \in 1..16

\* Inside a hole that is wider than one pixel: both counters are 1.
C29_Witness ==
    /\ pc = "scan"
    /\ ol = 1 /\ hl = 1
    /\ Cell(contours, cx, cy) = -1

(***************************************************************************)
(* PolygonMesh::mesh2d: the vertex list and the hole indices handed to     *)
(* earcut.  Coordinates are whole numbers held in f64, so the flip         *)
(* 2.0 * center_y - y is the exact value min_y + max_y - y.                *)
(***************************************************************************)
MaxGrid == 2             \* ring coordinates are in 0..MaxGrid
MaxExteriorPoints == 4   \* most points of an exterior ring, the closing one not counted
MaxEarcutTriangles == 1  \* most triangles in the index list earcut returns

GridPoints == (0..MaxGrid) \X (0..MaxGrid)

\* The tracer starts every ring at its topmost, then leftmost corner.
Before(p, q) == p[2] < q[2] \/ (p[2] = q[2] /\ p[1] < q[1])

\* The rings of n different points of S that start at their first corner.
RECURSIVE OpenRingsOfLen(_, _)
OpenRingsOfLen(S, n) ==
    IF n = 1 THEN {<<p>> : p \in S}
    ELSE UNION {{Append(s, q) : q \in {r \in S : Before(s[1], r)
                                                  /\ \A i \in 1..Len(s) : s[i] # r}}
                  : s \in OpenRingsOfLen(S, n - 1)}

OpenRings(S, lo, hi) == UNION {OpenRingsOfLen(S, n) : n \in lo..hi}

\* Polygon::new closes every ring.
ExteriorRings == {Close(s) : s \in OpenRings(GridPoints, 3, MaxExteriorPoints)}

\* The rings of a hole of one pixel, in either direction.
InteriorRings ==
    {ring \in {Close(s) : s \in OpenRings((0..1) \X (0..1), 4, 4)} : Shoelace2(ring) # 0}

MeshPolygons ==
    {[exterior |-> e, interiors |-> h] :
        e \in ExteriorRings, h \in SeqsUpTo(InteriorRings, 2)}

\* if points.len() > 1 && points[0] == points[len - 1] { &points[..len - 1] }
\* else { &points[..] }
DropClosing(points) ==
    IF Len(points) > 1 /\ points[1][1] = points[Len(points)][1]
                       /\ points[1][2] = points[Len(points)][2]
    THEN SubSeq(points, 1, Len(points) - 1)
    ELSE points

\* The y coordinates of the exterior_coords and of every hole_coords.
YsOf(polygon) ==
    {DropClosing(polygon.exterior)[i][2] : i \in 1..Len(DropClosing(polygon.exterior))}
    \cup UNION {{DropClosing(polygon.interiors[k])[i][2]
                    : i \in 1..Len(DropClosing(polygon.interiors[k]))}
                : k \in 1..Len(polygon.interiors)}

\* 2.0 * center_y  with  center_y = (min_y + max_y) * 0.5
TwiceCenterY(polygon) == MinOf(YsOf(polygon)) + MaxOf(YsOf(polygon))

\* let x = coord.x(); let y = 2.0 * center_y - coord.y();
Flipped(coord, polygon) == <<coord[1], TwiceCenterY(polygon) - coord[2]>>

\* is_counter_clockwise
IsCounterClockwise(ring) ==
    IF Len(ring) < 3 THEN TRUE
    ELSE LET n == Len(ring)
             j(i) == (i % n) + 1
         IN  SumUpTo([i \in 1..n |->
                         (ring[j(i)][1] - ring[i][1]) * (ring[j(i)][2] + ring[i][2])], n) < 0

\* vertices[a..b].reverse()
ReverseRing(ring) == [i \in 1..Len(ring) |-> ring[Len(ring) + 1 - i]]

FlippedRing(points, polygon) ==
    [i \in 1..Len(DropClosing(points)) |-> Flipped(DropClosing(points)[i], polygon)]

\* The exterior ring as pushed: reversed when it is not counter-clockwise.
ExteriorVertices(polygon) ==
    LET ring == FlippedRing(polygon.exterior, polygon)
    IN  IF ~IsCounterClockwise(ring) THEN ReverseRing(ring) ELSE ring

\* A hole as pushed: reversed when it is counter-clockwise.
HoleVertices(polygon, k) ==
    LET ring == FlippedRing(polygon.interiors[k], polygon)
    IN  IF IsCounterClockwise(ring) THEN ReverseRing(ring) ELSE ring

\* for hole in self.interiors() { holes.push(coords.len() / 2); push the points }
RECURSIVE ProcessHoles(_, _, _)
ProcessHoles(acc, polygon, k) ==
    IF k > Len(polygon.interiors) THEN acc
    ELSE ProcessHoles(
             [vertices |-> acc.vertices \o HoleVertices(polygon, k),
              holes |-> Append(acc.holes, Len(acc.vertices))],
             polygon, k + 1)

\* vertices and holes when earcut is called.
EarcutInput(polygon) ==
    ProcessHoles([vertices |-> ExteriorVertices(polygon), holes |-> <<>>], polygon, 1)

\* earcut is a library function whose search for ears is not modelled: it
\* returns Err, or a list of at most MaxEarcutTriangles triangles, each of
\* three consecutive vertices.
EarcutIndices(n) ==
    {Concat(tris, Len(tris)) :
        tris \in SeqsUpTo({<<k, k + 1, k + 2>> : k \in 0..(n - 3)}, MaxEarcutTriangles)}

InitTriangulate ==
    /\ mask = DefaultImage /\ call = NoCall /\ outcome = NoOutcome
    /\ TraceIdle
    /\ MeshIdle
    /\ BatchIdle
    /\ OutputsIdle
    /\ dynamic_image = NoImage
    /\ pc = "polygon"
    /\ smooth_polygons \in {<<polygon>> : polygon \in MeshPolygons}
    /\ holes = <<>>

\* let indices = earcut(&coords, &holes, 2)?; Ok(Mesh2D { vertices, indices })
Mesh2dOk ==
    /\ pc = "polygon"
    /\ LET input == EarcutInput(smooth_polygons[1])
       IN  /\ holes' = input.holes
           /\ \E indices \in EarcutIndices(Len(input.vertices)) :
                 mesh2d' = [vertices |-> input.vertices, indices |-> indices]
    /\ pc' = "mesh2d"
    /\ UNCHANGED <<restVars, batchVars, outputVars, dynamic_image, exportVars, smooth_polygons,
                   depth, image_w, image_h, mesh3d>>

\* earcut(&coords, &holes, 2)? returns the error of earcut.
Mesh2dErr ==
    /\ pc = "polygon"
    /\ holes' = EarcutInput(smooth_polygons[1]).holes
    /\ pc' = "triangulation_failed"
    /\ UNCHANGED <<restVars, batchVars, outputVars, dynamic_image, meshVars, smooth_polygons>>

NextTriangulate == Mesh2dOk \/ Mesh2dErr

SpecTriangulate == InitTriangulate /\ [][NextTriangulate]_vars

(***************************************************************************)
(* Claims about the triangulation.                                         *)
(***************************************************************************)
Triangulated == pc = "mesh2d" /\ Len(smooth_polygons) = 1

RingPoints(polygon) ==
    UNION {{ring[i] : i \in 1..Len(ring)} : ring \in RingsOf(<<polygon>>)}

\* Every vertex of the mesh has the coordinates of a vertex of a ring.
VerticesAreRingPoints ==
    Triangulated =>
        \A i \in 1..Len(mesh2d.vertices) :
            mesh2d.vertices[i] \in RingPoints(smooth_polygons[1])

\* The number of points of the rings before the k-th interior ring, the
\* closing point of each ring not counted.
RECURSIVE PointsBefore(_, _)
PointsBefore(polygon, k) ==
    IF k = 1 THEN Len(polygon.exterior) - 1
    ELSE PointsBefore(polygon, k - 1) + Len(polygon.interiors[k - 1]) - 1

\* vertices.length is the sum over the rings of (ring length - 1).
ClosingDuplicatesDropped ==
    Triangulated =>
        Len(mesh2d.vertices) =
            PointsBefore(smooth_polygons[1], Len(smooth_polygons[1].interiors) + 1)

\* Every hole start index is the number of vertices emitted before the hole.
HoleStartsCountVertices ==
    Triangulated =>
        /\ Len(holes) = Len(smooth_polygons[1].interiors)
        /\ \A k \in 1..Len(holes) : holes[k] = PointsBefore(smooth_polygons[1], k)

\* C22 as stated: every vertex of the Mesh2D has the (x, y) of a vertex of a
\* ring of the polygon, vertices.length is the sum over the rings of
\* (ring length - 1), and every hole start index is the number of vertices
\* emitted before that hole.
C22_TriangulationVertexSet ==
    /\ VerticesAreRingPoints
    /\ ClosingDuplicatesDropped
    /\ HoleStartsCountVertices

(***************************************************************************)
(* The output files of a batch: find_input_files collects the inputs of    *)
(* a directory, and every input writes its files into the one output       *)
(* folder.  A file name is [stem, ext]; an output path is a string.        *)
(***************************************************************************)
\* The file names a directory may hold, in the order of PathBuf's Ord:
\* "a.jpg" < "a.png" < "a_mask.png" < "b.png".
FileNames ==
    << [stem |-> "a", ext |-> "jpg"], [stem |-> "a", ext |-> "png"],
       [stem |-> "a_mask", ext |-> "png"], [stem |-> "b", ext |-> "png"] >>

NameSet == {FileNames[i] : i \in 1..Len(FileNames)}

\* A directory: some of the names, each an image that traces to a number of
\* polygons.
Directories == UNION {[S -> 0..MaxPolygons] : S \in SUBSET NameSet}

\* The patterns "*.jpg" and "*.png" after  pattern.replace('*', "").
EndsWith(text) == [kind |-> "ends_with", text |-> text]

\* The pattern "*_mask*" after  pattern.replace('*', "").
ContainsText(text) == [kind |-> "contains", text |-> text]

\* One pattern of matches_patterns, for patterns that contain '*':
\*   if pattern.starts_with('.') { filename.ends_with(&pattern) }
\*   else { filename.contains(&pattern) }
\* "a_mask.png" is the one name of the family that contains "_mask".
MatchesPattern(filename, pattern) ==
    IF pattern.kind = "ends_with" THEN "." \o filename.ext = pattern.text
    ELSE pattern.text = "_mask" /\ filename.stem = "a_mask"

\* matches_patterns
MatchesPatterns(filename, patterns) ==
    IF patterns = {} THEN FALSE
    ELSE \E pattern \in patterns : MatchesPattern(filename, pattern)

\* files.sort()
SortFiles(S) == SelectSeq(FileNames, LAMBDA f : f \in S)

\* find_input_files on a directory.
FindInputFilesIn(dir, include_patterns, exclude_patterns) ==
    SortFiles({f \in DOMAIN dir :
                  /\ MatchesPatterns(f, include_patterns)
                  /\ ~MatchesPatterns(f, exclude_patterns)})

\* main pushes "*_mask*" to the exclude patterns of every run.
Configs ==
    {[include_patterns |-> inc,
      exclude_patterns |-> exc \cup {ContainsText("_mask")},
      side_texture |-> s, back_texture |-> b, skip_intermediates |-> k] :
        inc \in SUBSET {EndsWith(".jpg"), EndsWith(".png")},
        exc \in SUBSET {EndsWith(".jpg")},
        s \in BOOLEAN, b \in BOOLEAN, k \in BOOLEAN}

\* input.file_stem()
AssetName(input) == input.stem

\* One file written: its path under the output folder, the input whose
\* processing wrote it, and what its content was made from.
Written(path, input, from) == [path |-> path, input |-> input, from |-> from]

\* textures/{asset_name}.png, then side.png and back.png when configured.
TextureWrites(input, cfg) ==
    <<Written("textures/" \o AssetName(input) \o ".png", input, input)>>
    \o (IF cfg.side_texture
        THEN <<Written("textures/side.png", input, "side_texture")>> ELSE <<>>)
    \o (IF cfg.back_texture
        THEN <<Written("textures/back.png", input, "back_texture")>> ELSE <<>>)

\* {asset_name}_mask.png and {asset_name}_polygon_{i}.png
IntermediateWrites(input, cfg, n) ==
    IF cfg.skip_intermediates THEN <<>>
    ELSE <<Written(AssetName(input) \o "_mask.png", input, input)>>
         \o [i \in 1..n |->
                Written(AssetName(input) \o "_polygon_" \o ToString(i - 1) \o ".png",
                        input, input)]

\* {asset_name}_{i}.2d.obj, {asset_name}_{i}.obj and {asset_name}_{i}.mtl
MeshWritesOf(input, cfg, i) ==
    (IF cfg.skip_intermediates THEN <<>>
     ELSE <<Written(AssetName(input) \o "_" \o ToString(i) \o ".2d.obj", input, input)>>)
    \o <<Written(AssetName(input) \o "_" \o ToString(i) \o ".obj", input, input),
         Written(AssetName(input) \o "_" \o ToString(i) \o ".mtl", input, input)>>

RECURSIVE MeshWrites(_, _, _)
MeshWrites(input, cfg, n) ==
    IF n = 0 THEN <<>>
    ELSE MeshWrites(input, cfg, n - 1) \o MeshWritesOf(input, cfg, n - 1)

\* The files process writes for an input that traces to n polygons, when
\* every step succeeds.
ProcessWrites(input, cfg, n) ==
    TextureWrites(input, cfg) \o IntermediateWrites(input, cfg, n)
    \o MeshWrites(input, cfg, n)

InitOutputs ==
    /\ mask = DefaultImage /\ call = NoCall /\ outcome = NoOutcome
    /\ TraceIdle
    /\ MeshIdle
    /\ BatchIdle
    /\ TriangulateIdle
    /\ dynamic_image = NoImage
    /\ pc = "find_input_files"
    /\ entries \in Directories
    /\ config \in Configs
    /\ input_files = <<>>
    /\ written = <<>>

\* let input_files = find_input_files(&input, &include_patterns, &exclude_patterns)?;
\* if input_files.is_empty() { std::process::exit(1); }
FindInputFiles ==
    /\ pc = "find_input_files"
    /\ input_files' = FindInputFilesIn(entries, config.include_patterns,
                                       config.exclude_patterns)
    /\ pc' = IF input_files' = <<>> THEN "exited" ELSE "process"
    /\ UNCHANGED <<restVars, meshVars, batchVars, triangulateVars, dynamic_image, entries, config, written>>

\* One turn of the loop over input_files: process(input) writes its files.
ProcessInput ==
    /\ pc = "process" /\ next_input <= Len(input_files)
    /\ LET input == input_files[next_input]
       IN  written' = written \o ProcessWrites(input, config, entries[input])
    /\ next_input' = next_input + 1
    /\ UNCHANGED <<restVars, meshVars, triangulateVars, dynamic_image, entries, config, input_files, pc,
                   continue_on_error, input_count, stats, invocations, run>>

\* The loop is over.
OutputsDone ==
    /\ pc = "process" /\ next_input > Len(input_files)
    /\ pc' = "done"
    /\ UNCHANGED <<restVars, meshVars, batchVars, triangulateVars, outputVars, dynamic_image>>

NextOutputs == FindInputFiles \/ ProcessInput \/ OutputsDone

SpecOutputs == InitOutputs /\ [][NextOutputs]_vars

(***************************************************************************)
(* Claims about the output files.                                          *)
(***************************************************************************)
\* The output folder after a sequence of writes: every path with what the
\* last write to it was made from.
FilesAfter(writes) ==
    {<<writes[i].path, writes[i].from>> :
        i \in {k \in 1..Len(writes) :
                  \A l \in (k + 1)..Len(writes) : writes[l].path # writes[k].path}}

RECURSIVE WritesOf(_, _)
WritesOf(order, k) ==
    IF k = 0 THEN <<>>
    ELSE WritesOf(order, k - 1) \o ProcessWrites(order[k], config, entries[order[k]])

\* The input files in every order.
Orders ==
    {[i \in 1..Len(input_files) |-> input_files[p[i]]] :
        p \in Permutations(1..Len(input_files))}

\* No two inputs write the same output path.
DistinctOutputPaths ==
    \A i, j \in 1..Len(written) :
        written[i].path = written[j].path => written[i].input = written[j].input

\* Every order of the inputs leaves the same files with the same contents.
OrderInsensitive ==
    pc = "done" =>
        \A order \in Orders : FilesAfter(WritesOf(order, Len(order))) = FilesAfter(written)

\* C23 as stated: the inputs of a batch, processed in any order, leave the
\* same output files with the same contents, and no two different inputs
\* write the same output path.
C23_OrderInsensitiveOutputs ==
    /\ DistinctOutputPaths
    /\ OrderInsensitive

(***************************************************************************)
(* BinaryImage::from(DynamicImage): the alpha of every pixel, converted    *)
(* to u8 and compared with 77.  A subpixel is kept as a ratio, so that     *)
(* 8-bit, 16-bit and floating-point channels have one representation; the  *)
(* colour channels are never read and are left out.                        *)
(***************************************************************************)
U16Max == 65535
AlphaThreshold == 77

\* The variants of DynamicImage that the match accepts.
Formats ==
    {"ImageRgb8", "ImageLuma8", "ImageRgba8", "ImageRgb16", "ImageLumaA8",
     "ImageLuma16", "ImageRgba16", "ImageRgb32F", "ImageLumaA16", "ImageRgba32F"}

\* P::Subpixel of a variant.
Subpixel(format) ==
    IF format \in {"ImageRgb8", "ImageLuma8", "ImageRgba8", "ImageLumaA8"} THEN "u8"
    ELSE IF format \in {"ImageRgb32F", "ImageRgba32F"} THEN "f32"
    ELSE "u16"

HasAlpha(format) ==
    format \in {"ImageRgba8", "ImageLumaA8", "ImageRgba16", "ImageLumaA16", "ImageRgba32F"}

\* The channel maximum: 255, 65535 or 1.0.
DefaultMaxValue(subpixel) ==
    IF subpixel = "u8" THEN Ratio(U8Max, 1)
    ELSE IF subpixel = "u16" THEN Ratio(U16Max, 1)
    ELSE Ratio(1, 1)

\* The alpha values the model stores in a channel of each kind.
AlphaValues(subpixel) ==
    IF subpixel = "u8"
    THEN {Ratio(0, 1), Ratio(AlphaThreshold, 1), Ratio(AlphaThreshold + 1, 1), Ratio(U8Max, 1)}
    ELSE IF subpixel = "u16"
    THEN {Ratio(0, 1), Ratio(AlphaThreshold + 1, 1), Ratio(U8Max, 1),
          Ratio(U8Max + 1, 1), Ratio(U16Max, 1)}
    ELSE {Ratio(0, 1), Ratio(1, 2), Ratio(1, 1), Ratio(AlphaThreshold + 1, 1)}

\* A decoded image: one stored alpha per pixel; a variant without an alpha
\* channel stores none, and its entries are not read.
ImagesOf(format) ==
    UNION { { [format |-> format, width |-> w, height |-> h, alpha |-> a]
              : a \in SeqsOfLen(IF HasAlpha(format) THEN AlphaValues(Subpixel(format))
                                ELSE {Ratio(0, 1)}, w * h) }
            : w \in 1..MaxImagePixels, h \in 1..MaxImagePixels }

DynamicImages ==
    {im \in UNION {ImagesOf(format) : format \in Formats} :
        im.width * im.height <= MaxImagePixels}

\* pixel.to_rgba().0[3]: the stored alpha, or the channel maximum for a
\* pixel without an alpha channel.
ToRgbaAlpha(im, i) ==
    IF HasAlpha(im.format) THEN im.alpha[i] ELSE DefaultMaxValue(Subpixel(im.format))

\* Option<u8>
None == [some |-> FALSE, value |-> 0]
Some(v) == [some |-> TRUE, value |-> v]

\* ToPrimitive::to_u8: an integer that does not fit in 8 bits gives None; a
\* float in (-1, 256) is truncated, any other float gives None.
ToU8(subpixel, v) ==
    IF subpixel = "f32"
    THEN IF v.num > -v.den /\ v.num < (U8Max + 1) * v.den
         THEN Some(IF v.num < 0 THEN 0 ELSE v.num \div v.den)
         ELSE None
    ELSE IF v.num <= U8Max THEN Some(v.num) ELSE None

\* a > b  on Option<u8>: None is less than every Some.
OptionGreater(a, b) ==
    /\ a.some
    /\ (~b.some \/ a.value > b.value)

\* impl From<ImageBuffer<P, Container>> for BinaryImage
FromImageBuffer(im) ==
    [width |-> im.width, height |-> im.height,
     buffer |-> [i \in 1..Len(im.alpha) |->
                    OptionGreater(ToU8(Subpixel(im.format), ToRgbaAlpha(im, i)),
                                  Some(AlphaThreshold))]]

InitFrom ==
    /\ mask = DefaultImage /\ call = NoCall /\ outcome = NoOutcome
    /\ TraceIdle
    /\ MeshIdle
    /\ BatchIdle
    /\ TriangulateIdle
    /\ OutputsIdle
    /\ pc = "image"
    /\ dynamic_image \in DynamicImages

\* let binary = BinaryImage::from(image);
FromDynamicImage ==
    /\ pc = "image"
    /\ mask' = FromImageBuffer(dynamic_image)
    /\ pc' = "binary"
    /\ UNCHANGED <<call, outcome, maskIdleVars>>

NextFrom == FromDynamicImage

SpecFrom == InitFrom /\ [][NextFrom]_vars

(***************************************************************************)
(* Claims about BinaryImage::from.                                         *)
(***************************************************************************)
\* The pixel is fully opaque: its alpha is the channel maximum.
Opaque(im, i) ==
    SameRatio(ToRgbaAlpha(im, i), DefaultMaxValue(Subpixel(im.format)))

\* The pixel is fully transparent.
Transparent(im, i) == ToRgbaAlpha(im, i).num = 0

\* C30: for 8-bit, 16-bit and floating-point images alike, BinaryImage::from
\* makes every fully opaque pixel foreground and every fully transparent
\* pixel background.
C30_ConsistentAcrossDepths ==
    pc = "binary" =>
        /\ mask.width = dynamic_image.width /\ mask.height = dynamic_image.height
        /\ \A i \in 1..Len(dynamic_image.alpha) :
              /\ Opaque(dynamic_image, i) => mask.buffer[i]
              /\ Transparent(dynamic_image, i) => ~mask.buffer[i]

====
